---- MODULE Spec2Model ----
(***************************************************************************)
(* Squeeze Monitor v2 (scripts/squeeze-monitor.js, held in                 *)
(* src/unnamed/part_002 lines 469-796): one pass of main() over the        *)
(* upstream JSON snapshots, the cooldown state file and the output         *)
(* artifact.                                                               *)
(*                                                                         *)
(* Number encodings.  Funding rates are held in millionths (0.006 is       *)
(* 6000), RSI values and percentages in hundredths (35 is 3500, the RSI    *)
(* producer rounds to two decimals), times in milliseconds.  A JSON null   *)
(* in a numeric field is JsNull.  A JS object used as a map is a function  *)
(* whose DOMAIN is the set of keys that are defined.                       *)
(***************************************************************************)
EXTENDS Integers, Sequences, FiniteSets, TLC

VARIABLES
    clock,       \* Date.now() of the host, in ms
    ticks,       \* number of clock advances so far
    started,     \* number of invocations of main() so far
    stateFile,   \* data/squeeze-state.json
    outputFile,  \* data/squeeze-latest.json
    run,         \* per process: the locals of main()
    history,     \* summaries of the two latest invocations that ran to their end
    emitted,     \* per cooldown key: the `now` of the latest run that alerted it
    calc,        \* the call of an indicator routine: its arguments and what it returned
    scanner,     \* ema-breakout-scanner.js: its files and the locals of its main()
    tracker      \* polymarket-tracker.js: its files and the locals of its scan()

vars == <<clock, ticks, started, stateFile, outputFile, run, history, emitted, calc,
          scanner, tracker>>

-----------------------------------------------------------------------------
(* Program constants *)

OI_THRESHOLD == 1000000
DIVERGENCE_THRESHOLD == 2000
EXTREME_RATE == 6000
COOLDOWN == 4 * 60 * 60 * 1000
RSI_LONG_MAX == 3500
RSI_SHORT_MIN == 6500
CAPITULATION_PCT == 0 - 3000
OI_VOL_RATIO_MIN == 300
JsNull == 0 - 1

(* Bounds of the exploration *)
MaxRuns == 3
MaxTicks == 2
GateRuns == 1
OptRuns == 1
ConvRuns == 1
EntryRuns == 2
OverlapRuns == 2
KeyRuns == 2
RateSteps == 13
RateRuns == 1
CorruptRuns == 2
ScanRuns == 2
TrackRuns == 3
MaxPeriod == 2
MaxLen == 7

Coins == {"BTC", "ETH"}
Sentiments == {"shorts_crowded", "bearish", "neutral", "bullish", "longs_crowded"}
Crowded == {"shorts_crowded", "longs_crowded"}
Keys == Crowded \X Coins
Procs == {1}

Abs(x) == IF x < 0 THEN 0 - x ELSE x
Truthy(n) == n # JsNull /\ n # 0
NoMap == [c \in {} |-> 0]
Restrict(f, S) == [c \in S |-> f[c]]

-----------------------------------------------------------------------------
(* Step 1: candidate construction, main() lines 582-600 *)

IsCrowded(coin) == coin.sentiment = "shorts_crowded" \/ coin.sentiment = "longs_crowded"

HasHighOI_Inclusive(coin) == Truthy(coin.oiUsd) /\ coin.oiUsd >= OI_THRESHOLD

HasHighOI(coin) == Truthy(coin.oiUsd) /\ coin.oiUsd > OI_THRESHOLD

Spread(coin) == coin.maxRate - coin.minRate

HasDivergence(coin) ==
    /\ Spread(coin) > DIVERGENCE_THRESHOLD
    /\ Truthy(coin.oiUsd) /\ coin.oiUsd > OI_THRESHOLD
    /\ Abs(coin.avgRate) >= EXTREME_RATE

Reasons(coin) ==
    (IF IsCrowded(coin) /\ HasHighOI(coin) THEN <<"crowded_high_oi">> ELSE <<>>)
    \o (IF HasDivergence(coin) THEN <<"exchange_divergence">> ELSE <<>>)

(* Step 2: the RSI gate, main() lines 602-627 *)

RsiConfirms_Strict(sentiment, rsi) ==
    \/ sentiment = "shorts_crowded" /\ rsi < RSI_LONG_MAX
    \/ sentiment = "longs_crowded" /\ rsi > RSI_SHORT_MIN

RsiConfirms_AnySentiment(sentiment, rsi) == rsi <= RSI_LONG_MAX \/ rsi >= RSI_SHORT_MIN

RsiConfirms(sentiment, rsi) ==
    \/ sentiment = "shorts_crowded" /\ rsi <= RSI_LONG_MAX
    \/ sentiment = "longs_crowded" /\ rsi >= RSI_SHORT_MIN

RsiNote(sentiment, rsi) ==
    IF sentiment = "shorts_crowded" /\ rsi <= RSI_LONG_MAX THEN "oversold_long_setup"
    ELSE "overbought_short_setup"

Outcome_FundingOnly(coin, rsiData) ==
    IF Len(Reasons(coin)) = 0 THEN "silent"
    ELSE IF coin.coin \in DOMAIN rsiData /\ ~RsiConfirms(coin.sentiment, rsiData[coin.coin])
    THEN "skip_rsi_mismatch"
    ELSE "alert"

(* What the loop body does with one funding entry: "silent" is the          *)
(* `continue` of line 600, the two "skip_" outcomes are the logged          *)
(* `continue`s of lines 621 and 626, "alert" reaches alerts.push.           *)
Outcome(coin, rsiData) ==
    IF Len(Reasons(coin)) = 0 THEN "silent"
    ELSE IF coin.coin \notin DOMAIN rsiData THEN "skip_no_rsi"
    ELSE IF ~RsiConfirms(coin.sentiment, rsiData[coin.coin]) THEN "skip_rsi_mismatch"
    ELSE "alert"

SetupDirection_Inverted(sentiment) == IF sentiment = "shorts_crowded" THEN "SHORT" ELSE "LONG"

SetupDirection(sentiment) == IF sentiment = "shorts_crowded" THEN "LONG" ELSE "SHORT"

-----------------------------------------------------------------------------
(* Steps 3-7: corroboration, main() lines 631-731.  Each step maps the      *)
(* conviction it receives to the conviction it leaves.                      *)

HasSignal(ema, types) == ema.signals \cap types # {}

EmaStep_CapitulationInclusive(dir, hasEma, ema) ==
    IF ~hasEma THEN [emaNote |-> "No EMA data", emaConfirms |-> FALSE, conviction |-> "MEDIUM"]
    ELSE IF dir = "LONG" THEN
        IF HasSignal(ema, {"NEAR_EMA200", "CROSS_ABOVE_200"})
        THEN [emaNote |-> "battle_zone", emaConfirms |-> TRUE, conviction |-> "HIGH"]
        ELSE IF ema.priceVsEMA200 <= CAPITULATION_PCT
        THEN [emaNote |-> "capitulation", emaConfirms |-> FALSE, conviction |-> "MEDIUM-HIGH"]
        ELSE [emaNote |-> "raw_trend", emaConfirms |-> FALSE, conviction |-> "MEDIUM"]
    ELSE
        IF HasSignal(ema, {"NEAR_EMA200", "CROSS_BELOW_200"})
        THEN [emaNote |-> "rejected_at_200", emaConfirms |-> TRUE, conviction |-> "HIGH"]
        ELSE IF ema.alignment = "BEARISH"
        THEN [emaNote |-> "bearish_stack", emaConfirms |-> TRUE, conviction |-> "MEDIUM-HIGH"]
        ELSE [emaNote |-> "raw_trend", emaConfirms |-> FALSE, conviction |-> "MEDIUM"]

EmaStep_ShortNeedsSignal(dir, hasEma, ema) ==
    IF ~hasEma THEN [emaNote |-> "No EMA data", emaConfirms |-> FALSE, conviction |-> "MEDIUM"]
    ELSE IF dir = "LONG" THEN
        IF HasSignal(ema, {"NEAR_EMA200", "CROSS_ABOVE_200"})
        THEN [emaNote |-> "battle_zone", emaConfirms |-> TRUE, conviction |-> "HIGH"]
        ELSE IF ema.priceVsEMA200 < CAPITULATION_PCT
        THEN [emaNote |-> "capitulation", emaConfirms |-> FALSE, conviction |-> "MEDIUM-HIGH"]
        ELSE [emaNote |-> "raw_trend", emaConfirms |-> FALSE, conviction |-> "MEDIUM"]
    ELSE
        IF HasSignal(ema, {"NEAR_EMA200", "CROSS_BELOW_200"})
        THEN [emaNote |-> "rejected_at_200", emaConfirms |-> TRUE, conviction |-> "HIGH"]
        ELSE IF ema.alignment = "BEARISH"
        THEN [emaNote |-> "bearish_stack", emaConfirms |-> FALSE, conviction |-> "MEDIUM-HIGH"]
        ELSE [emaNote |-> "raw_trend", emaConfirms |-> FALSE, conviction |-> "MEDIUM"]

EmaStep(dir, hasEma, ema) ==
    IF ~hasEma THEN [emaNote |-> "No EMA data", emaConfirms |-> FALSE, conviction |-> "MEDIUM"]
    ELSE IF dir = "LONG" THEN
        IF HasSignal(ema, {"NEAR_EMA200", "CROSS_ABOVE_200"})
        THEN [emaNote |-> "battle_zone", emaConfirms |-> TRUE, conviction |-> "HIGH"]
        ELSE IF ema.priceVsEMA200 < CAPITULATION_PCT
        THEN [emaNote |-> "capitulation", emaConfirms |-> FALSE, conviction |-> "MEDIUM-HIGH"]
        ELSE [emaNote |-> "raw_trend", emaConfirms |-> FALSE, conviction |-> "MEDIUM"]
    ELSE
        IF HasSignal(ema, {"NEAR_EMA200", "CROSS_BELOW_200"})
        THEN [emaNote |-> "rejected_at_200", emaConfirms |-> TRUE, conviction |-> "HIGH"]
        ELSE IF ema.alignment = "BEARISH"
        THEN [emaNote |-> "bearish_stack", emaConfirms |-> TRUE, conviction |-> "MEDIUM-HIGH"]
        ELSE [emaNote |-> "raw_trend", emaConfirms |-> FALSE, conviction |-> "MEDIUM"]

TripleStep_Assign(tripleConfluence, conviction) ==
    IF tripleConfluence THEN "HIGH" ELSE "MEDIUM"

TripleStep_Skipped(tripleConfluence, conviction) == conviction

TripleStep(tripleConfluence, conviction) ==
    IF tripleConfluence THEN "HIGH" ELSE conviction

MtfOpposes(dir, mtf) ==
    \/ dir = "LONG" /\ mtf.alignment = "BEARISH_ALIGNED"
    \/ dir = "SHORT" /\ mtf.alignment = "BULLISH_ALIGNED"

MtfNote(dir, hasMtf, mtf) ==
    IF ~hasMtf THEN ""
    ELSE IF dir = "LONG" /\ mtf.alignment = "BEARISH_ALIGNED" THEN "all_tfs_bearish"
    ELSE IF dir = "SHORT" /\ mtf.alignment = "BULLISH_ALIGNED" THEN "all_tfs_bullish"
    ELSE IF mtf.rsiDivergence # "" THEN "rsi_divergence"
    ELSE "tf_alignment"

MtfStep_NoTriple(dir, hasMtf, mtf, tripleConfluence, conviction) ==
    IF hasMtf /\ MtfOpposes(dir, mtf) THEN "VERY HIGH" ELSE conviction

MtfStep(dir, hasMtf, mtf, tripleConfluence, conviction) ==
    IF hasMtf /\ MtfOpposes(dir, mtf) /\ tripleConfluence THEN "VERY HIGH" ELSE conviction

ObAgrees(dir, ob) ==
    \/ dir = "LONG" /\ ob.pressure = "buy_pressure"
    \/ dir = "SHORT" /\ ob.pressure = "sell_pressure"

ObNote(dir, hasOb, ob) ==
    IF ~hasOb THEN <<>>
    ELSE (IF dir = "LONG" /\ ob.pressure = "buy_pressure" THEN <<"supports_long">>
          ELSE IF dir = "SHORT" /\ ob.pressure = "sell_pressure" THEN <<"supports_short">>
          ELSE IF ob.pressure # "neutral" THEN <<"conflicts">>
          ELSE <<>>)
         \o (IF Truthy(ob.bidWalls) \/ Truthy(ob.askWalls) THEN <<"walls">> ELSE <<>>)

ObStep_ConflictDemotes(dir, hasOb, ob, conviction) ==
    IF hasOb /\ ObAgrees(dir, ob) /\ conviction = "HIGH" THEN "VERY HIGH"
    ELSE IF hasOb /\ ~ObAgrees(dir, ob) /\ ob.pressure # "neutral" THEN "MEDIUM"
    ELSE conviction

ObStep_AnyConviction(dir, hasOb, ob, conviction) ==
    IF hasOb /\ ObAgrees(dir, ob) THEN "VERY HIGH" ELSE conviction

ObStep_FromMediumHigh(dir, hasOb, ob, conviction) ==
    IF hasOb /\ ObAgrees(dir, ob) /\ conviction \in {"HIGH", "MEDIUM-HIGH"} THEN "VERY HIGH"
    ELSE conviction

ObStep(dir, hasOb, ob, conviction) ==
    IF hasOb /\ ObAgrees(dir, ob) /\ conviction = "HIGH" THEN "VERY HIGH" ELSE conviction

VolNote(hasVol, vol) ==
    IF ~hasVol THEN <<>>
    ELSE (IF vol.isSpike THEN <<"spike">>
          ELSE IF vol.isDryUp THEN <<"dry_up">>
          ELSE <<>>)
         \o (IF vol.oiToVolRatio >= OI_VOL_RATIO_MIN THEN <<"high_oi_vol">> ELSE <<>>)

VolStep_SpikeBoost(hasVol, vol, conviction) ==
    IF hasVol /\ vol.isSpike /\ conviction = "HIGH" THEN "VERY HIGH" ELSE conviction

(* The volume block of lines 719-731 assigns volNote only *)
VolStep(hasVol, vol, conviction) == conviction

-----------------------------------------------------------------------------
(* The alert record of one gated candidate, main() lines 629-750.           *)
(* convTrace lists the conviction after the base assignment and after the   *)
(* EMA, triple-confluence, multi-timeframe and order-book steps.            *)

NoEma == [error |-> FALSE, trend |-> "", alignment |-> "", priceVsEMA200 |-> 0, signals |-> {}]
NoMtf == [alignment |-> "", rsiDivergence |-> ""]
NoOb == [error |-> FALSE, pressure |-> "neutral", bidWalls |-> JsNull, askWalls |-> JsNull]
NoVol == [isSpike |-> FALSE, isDryUp |-> FALSE, oiToVolRatio |-> 0]

Lookup(map, c, default) == IF c \in DOMAIN map THEN map[c] ELSE default

OrNull(n) == IF Truthy(n) THEN n ELSE JsNull

BuildAlert(coin, snap) ==
    LET c == coin.coin
        rsi == Lookup(snap.rsiData, c, JsNull)
        dir == SetupDirection(coin.sentiment)
        hasEma == c \in DOMAIN snap.emaData
        hasMtf == c \in DOMAIN snap.mtfData
        hasOb == c \in DOMAIN snap.obData
        hasVol == c \in DOMAIN snap.volData
        e == EmaStep(dir, hasEma, Lookup(snap.emaData, c, NoEma))
        mtf == Lookup(snap.mtfData, c, NoMtf)
        ob == Lookup(snap.obData, c, NoOb)
        triple == RsiConfirms(coin.sentiment, rsi) /\ e.emaConfirms
        c0 == "MEDIUM"
        c1 == e.conviction
        c2 == TripleStep(triple, c1)
        c3 == MtfStep(dir, hasMtf, mtf, triple, c2)
        c4 == ObStep(dir, hasOb, ob, c3)
        vol == Lookup(snap.volData, c, NoVol)
    IN [coin |-> c,
        avgRate |-> coin.avgRate,
        oiUsd |-> coin.oiUsd,
        sentiment |-> coin.sentiment,
        setupDirection |-> dir,
        rsi |-> OrNull(rsi),
        rsiNote |-> RsiNote(coin.sentiment, rsi),
        emaNote |-> e.emaNote,
        emaConfirms |-> e.emaConfirms,
        mtfNote |-> MtfNote(dir, hasMtf, mtf),
        obNote |-> ObNote(dir, hasOb, ob),
        volNote |-> VolNote(hasVol, vol),
        tripleConfluence |-> triple,
        conviction |-> VolStep(hasVol, vol, c4),
        reason |-> Reasons(coin),
        convTrace |-> <<c0, c1, c2, c3, c4>>]

(* The for-loop of lines 582-751 over the funding entries, in order.  A     *)
(* null entry makes `coin.sentiment` throw a TypeError that nothing         *)
(* catches.                                                                 *)
Throws(coins) == \E i \in 1..Len(coins) : coins[i].json = "null"

RECURSIVE CollectAlerts_NeedsEma(_, _)
CollectAlerts_NeedsEma(coins, snap) ==
    IF coins = <<>> THEN <<>>
    ELSE (IF Outcome(Head(coins), snap.rsiData) = "alert" /\ Head(coins).coin \in DOMAIN snap.emaData
          THEN <<BuildAlert(Head(coins), snap)>> ELSE <<>>)
         \o CollectAlerts_NeedsEma(Tail(coins), snap)

RECURSIVE CollectAlerts(_, _)
CollectAlerts(coins, snap) ==
    IF coins = <<>> THEN <<>>
    ELSE (IF Outcome(Head(coins), snap.rsiData) = "alert"
          THEN <<BuildAlert(Head(coins), snap)>> ELSE <<>>)
         \o CollectAlerts(Tail(coins), snap)

RECURSIVE CollectLog(_, _)
CollectLog(coins, rsiData) ==
    IF coins = <<>> THEN <<>>
    ELSE (IF Outcome(Head(coins), rsiData) \in {"skip_no_rsi", "skip_rsi_mismatch"}
          THEN <<[coin |-> Head(coins).coin, msg |-> Outcome(Head(coins), rsiData)]>>
          ELSE <<>>)
         \o CollectLog(Tail(coins), rsiData)

-----------------------------------------------------------------------------
(* Step 8: cooldown filter and marking, main() lines 753-763 *)

Key_InstrumentOnly(a) == <<"", a.coin>>

(* The key of lines 755 and 762: `${a.sentiment}_${a.coin}` *)
Key(a) == <<a.sentiment, a.coin>>

Last(lastAlerted, k) ==
    IF k \in DOMAIN lastAlerted /\ Truthy(lastAlerted[k]) THEN lastAlerted[k] ELSE 0

IsNew_AtBoundary(a, lastAlerted, now) == (now - Last(lastAlerted, Key(a))) >= COOLDOWN

IsNew(a, lastAlerted, now) == (now - Last(lastAlerted, Key(a))) > COOLDOWN

FilterNew_KnownOnly(alerts, lastAlerted, now) ==
    SelectSeq(alerts, LAMBDA a : Key(a) \in DOMAIN lastAlerted /\ IsNew(a, lastAlerted, now))

FilterNew(alerts, lastAlerted, now) ==
    SelectSeq(alerts, LAMBDA a : IsNew(a, lastAlerted, now))

KeysOf(alerts) == {Key(alerts[i]) : i \in 1..Len(alerts)}

KeySeq(alerts) == [i \in 1..Len(alerts) |-> Key(alerts[i])]

MarkNew_Unmarked(lastAlerted, newAlerts, now) == lastAlerted

MarkNew_OnlyNew(lastAlerted, newAlerts, now) == [k \in KeysOf(newAlerts) |-> now]

MarkNew(lastAlerted, newAlerts, now) ==
    [k \in DOMAIN lastAlerted \cup KeysOf(newAlerts) |->
        IF k \in KeysOf(newAlerts) THEN now ELSE lastAlerted[k]]

-----------------------------------------------------------------------------
(* Files *)

NoOutput == [exists |-> FALSE, hasNewAlerts |-> FALSE, alerts |-> <<>>,
             allCandidates |-> <<>>, timestamp |-> 0]

(* The state file holds the text JSON.stringify made of the state object:   *)
(* the members of lastAlerted, one per key.  The order of the members of a  *)
(* JSON object does not reach JSON.parse's result, so the text is held with *)
(* its members in one fixed order.                                          *)
NoState == [status |-> "absent", members |-> <<>>]

RECURSIVE Stringify(_)
Stringify(map) ==
    IF DOMAIN map = {} THEN <<>>
    ELSE LET k == CHOOSE x \in DOMAIN map : TRUE
         IN <<[key |-> k, value |-> map[k]]>> \o Stringify(Restrict(map, DOMAIN map \ {k}))

(* JSON.parse of an object: a key names the value of its last member *)
Parse(members) ==
    [k \in {members[i].key : i \in 1..Len(members)} |->
        LET last == CHOOSE i \in 1..Len(members) :
                        /\ members[i].key = k
                        /\ \A j \in (i + 1)..Len(members) : members[j].key # k
        IN members[last].value]

loadState_Fresh(file) == NoMap

loadState_ReadsAnyway(file) == Parse(file.members)

(* loadState, lines 496-502 *)
loadState(file) == IF file.status = "ok" THEN Parse(file.members) ELSE NoMap

saveState_SkipEmpty(lastAlerted) ==
    IF DOMAIN lastAlerted = {} THEN NoState
    ELSE [status |-> "ok", members |-> Stringify(lastAlerted)]

(* saveState, lines 504-506 *)
saveState(lastAlerted) == [status |-> "ok", members |-> Stringify(lastAlerted)]

(* The try/catch loads of lines 522-580: a file that is absent or does not  *)
(* parse leaves the map empty.                                              *)
LoadRsi(f) == IF f.status = "ok" THEN f.coins ELSE NoMap

LoadEma(f) ==
    IF f.status = "ok"
    THEN Restrict(f.coins, {c \in DOMAIN f.coins : ~f.coins[c].error})
    ELSE NoMap

LoadMtf(f) == IF f.status = "ok" THEN f.results ELSE NoMap

LoadOb(f) ==
    IF f.status = "ok"
    THEN Restrict(f.results, {c \in DOMAIN f.results : ~f.results[c].error})
    ELSE NoMap

LoadVol(f) == IF f.status = "ok" THEN f.results ELSE NoMap

FundingReadable_Lenient(f) == f.status # "absent"

FundingReadable(f) == f.status = "ok"

-----------------------------------------------------------------------------
(* The snapshots one invocation can find on disk *)

Entry(c, s, avg, spread, oi) ==
    [json |-> "object", coin |-> c, sentiment |-> s, avgRate |-> avg,
     minRate |-> avg - 1000, maxRate |-> (avg - 1000) + spread, oiUsd |-> oi]

Funding(coins) == [status |-> "ok", coins |-> coins]
FundingAbsent == [status |-> "absent", coins |-> <<>>]
FundingUnparseable == [status |-> "unparseable", coins |-> <<>>]

CoinsFile(map) == [status |-> "ok", coins |-> map]
CoinsFileBad(st) == [status |-> st, coins |-> NoMap]
ResultsFile(map) == [status |-> "ok", results |-> map]
ResultsFileBad(st) == [status |-> st, results |-> NoMap]

BadStatus == {"absent", "unparseable"}

Files(fu, rs, em, mt, ob, vo) ==
    [funding |-> fu, rsi |-> rs, ema |-> em, mtf |-> mt, ob |-> ob, vol |-> vo]

(* Corroborating records that confirm both a LONG and a SHORT setup *)
EmaBattle == [error |-> FALSE, trend |-> "BELOW_200", alignment |-> "MIXED",
              priceVsEMA200 |-> 0 - 150, signals |-> {"NEAR_EMA200"}]
EmaFar == [error |-> FALSE, trend |-> "BELOW_200", alignment |-> "MIXED",
           priceVsEMA200 |-> 0 - 3001, signals |-> {}]
EmaFull == CoinsFile([c \in Coins |-> IF c = "BTC" THEN EmaBattle ELSE EmaFar])
MtfFull == ResultsFile([c \in Coins |->
              [alignment |-> IF c = "BTC" THEN "BEARISH_ALIGNED" ELSE "BULLISH_ALIGNED",
               rsiDivergence |-> ""]])
ObFull == ResultsFile([c \in Coins |->
              [error |-> FALSE,
               pressure |-> IF c = "BTC" THEN "buy_pressure" ELSE "sell_pressure",
               bidWalls |-> 2, askWalls |-> JsNull]])
VolFull == ResultsFile([c \in Coins |->
              [isSpike |-> c = "BTC", isDryUp |-> c # "BTC", oiToVolRatio |-> 300]])

EmaNone == CoinsFileBad("absent")
MtfNone == ResultsFileBad("absent")
ObNone == ResultsFileBad("absent")
VolNone == ResultsFileBad("absent")

(* Funding entries that fire a Step-1 rule, and some that do not *)
BtcShorts == Entry("BTC", "shorts_crowded", 0 - 8000, 500, 5000000)
EthLongs == Entry("ETH", "longs_crowded", 9000, 500, 7000000)
EthShorts == Entry("ETH", "shorts_crowded", 0 - 9000, 500, 7000000)
EthNeutral == Entry("ETH", "neutral", 200, 500, 7000000)

RsiBoth == CoinsFile([c \in Coins |-> IF c = "BTC" THEN 2800 ELSE 7200])

(* Domain of the run driver: whole runs in sequence *)
MainFundings ==
    {FundingAbsent, FundingUnparseable, Funding(<<>>), Funding(<<BtcShorts>>),
     Funding(<<BtcShorts, BtcShorts>>), Funding(<<BtcShorts, EthLongs>>),
     Funding(<<EthNeutral, BtcShorts>>), Funding(<<EthShorts, BtcShorts>>)}

MainRsi == {RsiBoth, CoinsFileBad("absent"), CoinsFileBad("unparseable")}

MainFiles ==
    {Files(fu, rs, EmaFull, MtfFull, ObFull, VolFull) : fu \in MainFundings, rs \in MainRsi}

(* Domain of the gate: one funding entry, every boundary of Steps 1 and 2 *)
GateEntries ==
    {Entry("BTC", s, avg, spread, oi) :
        s \in {"shorts_crowded", "longs_crowded", "neutral"}, avg \in {5999, 0 - 6000},
        spread \in {2000, 2001}, oi \in {JsNull, 1000000, 1000001}}
    \cup {Entry("BTC", "shorts_crowded", 0 - 20000, 500, 10000000)}

GateRsi ==
    {CoinsFile([c \in {"BTC"} |-> v]) : v \in {3500, 3501, 3600, 6400, 6499, 6500}}
    \cup {CoinsFile([c \in {"ETH"} |-> 2800]), CoinsFileBad("absent")}

GateFiles ==
    {Files(Funding(<<e>>), rs, EmaFull, MtfFull, ObFull, VolFull) :
        e \in GateEntries, rs \in GateRsi}
    \cup {Files(FundingAbsent, RsiBoth, EmaFull, MtfFull, ObFull, VolFull)}

(* Domain of the optional snapshots: any subset of them is missing, either  *)
(* absent or unparseable.                                                   *)
OptFiles ==
    {Files(fu, RsiBoth,
           IF "ema" \in bad THEN CoinsFileBad(st) ELSE EmaFull,
           IF "mtf" \in bad THEN ResultsFileBad(st) ELSE MtfFull,
           IF "ob" \in bad THEN ResultsFileBad(st) ELSE ObFull,
           IF "vol" \in bad THEN ResultsFileBad(st) ELSE VolFull) :
        fu \in {Funding(<<BtcShorts>>), Funding(<<EthLongs, BtcShorts>>)},
        bad \in SUBSET {"ema", "mtf", "ob", "vol"},
        st \in BadStatus}

(* Domain of the corroboration steps: one gated candidate, LONG or SHORT,    *)
(* under every combination of EMA, multi-timeframe, order-book and volume   *)
(* records.  The EMA records are ones analyzeCoin produces: NEAR_EMA200     *)
(* goes with a price within 2% of EMA 200, CROSS_ABOVE_200 with a price     *)
(* above it, and a coin with too few candles for EMA 200 has no trend,      *)
(* alignment or priceVsEMA200 at all.                                       *)
EmaRec(trend, alignment, pct, signals) ==
    [error |-> FALSE, trend |-> trend, alignment |-> alignment,
     priceVsEMA200 |-> pct, signals |-> signals]

EmaRecords ==
    {EmaBattle, EmaFar,
     EmaRec("BELOW_200", "MIXED", CAPITULATION_PCT, {}),
     EmaRec("ABOVE_200", "MIXED", 250, {"CROSS_ABOVE_200"}),
     EmaRec("BELOW_200", "MIXED", 0 - 250, {"CROSS_BELOW_200"}),
     EmaRec("BELOW_200", "BEARISH", 0 - 1000, {"BEARISH_STACK"}),
     EmaRec("BELOW_200", "BEARISH", 0 - 3500, {"BEARISH_STACK"}),
     EmaRec("BELOW_200", "BEARISH", 0 - 120, {"BEARISH_STACK", "NEAR_EMA200"}),
     EmaRec("ABOVE_200", "BULLISH", 800, {"BULLISH_STACK"}),
     EmaRec("", "", JsNull, {}),
     [NoEma EXCEPT !.error = TRUE]}

MtfRecords ==
    {[alignment |-> a, rsiDivergence |-> d] :
        a \in {"BEARISH_ALIGNED", "BULLISH_ALIGNED", "MIXED"},
        d \in {"", "SHORT_TF_OVERSOLD"}}

ObRecords ==
    {[error |-> FALSE, pressure |-> "buy_pressure", bidWalls |-> 2, askWalls |-> JsNull],
     [error |-> FALSE, pressure |-> "sell_pressure", bidWalls |-> JsNull, askWalls |-> JsNull],
     [error |-> FALSE, pressure |-> "neutral", bidWalls |-> JsNull, askWalls |-> 1],
     [NoOb EXCEPT !.error = TRUE]}

VolQuiet == ResultsFile([c \in Coins |->
               [isSpike |-> FALSE, isDryUp |-> FALSE, oiToVolRatio |-> OI_VOL_RATIO_MIN - 1]])

ConvFiles ==
    {Files(Funding(<<e>>), RsiBoth, em, mt, ob, vo) :
        e \in {BtcShorts, EthLongs},
        em \in {CoinsFile([c \in Coins |-> r]) : r \in EmaRecords} \cup {EmaNone},
        mt \in {ResultsFile([c \in Coins |-> r]) : r \in MtfRecords} \cup {MtfNone},
        ob \in {ResultsFile([c \in Coins |-> r]) : r \in ObRecords} \cup {ObNone},
        vo \in {VolFull, VolQuiet, VolNone}}

(* What a later invocation of that exploration finds on disk *)
ConvRepeat == {Files(Funding(<<BtcShorts>>), RsiBoth, EmaFull, MtfFull, ObFull, VolNone)}

(* Domain of the per-entry loop: funding snapshots that parse but hold a     *)
(* record that is not a well-formed instrument: a JSON null, an object with *)
(* no fields, an object with no coin.  A field that is missing reads as     *)
(* undefined, which fails every comparison of Step 1 and is no key of the   *)
(* RSI map.                                                                 *)
NullEntry ==
    [json |-> "null", coin |-> "", sentiment |-> "", avgRate |-> JsNull,
     minRate |-> JsNull, maxRate |-> JsNull, oiUsd |-> JsNull]

EmptyEntry == [NullEntry EXCEPT !.json = "object"]

NamelessEntry == [BtcShorts EXCEPT !.coin = ""]

EntryFundings ==
    {FundingAbsent, FundingUnparseable, Funding(<<>>), Funding(<<BtcShorts>>),
     Funding(<<NullEntry>>), Funding(<<BtcShorts, NullEntry>>), Funding(<<NullEntry, EthLongs>>),
     Funding(<<EmptyEntry, BtcShorts>>), Funding(<<NamelessEntry, EthLongs>>)}

EntryFiles ==
    {Files(fu, rs, EmaFull, MtfFull, ObFull, VolFull) :
        fu \in EntryFundings, rs \in {RsiBoth, CoinsFileBad("absent")}}

-----------------------------------------------------------------------------
(* State *)

EmptySnap == [rsiData |-> NoMap, emaData |-> NoMap, mtfData |-> NoMap,
              obData |-> NoMap, volData |-> NoMap]

NoFiles == Files(FundingAbsent, CoinsFileBad("absent"), EmaNone, MtfNone, ObNone, VolNone)

IdleRun ==
    [pc |-> "idle", inputs |-> NoFiles, coins |-> <<>>, lastAlerted |-> NoMap,
     now |-> 0, snap |-> EmptySnap, alerts |-> <<>>, log |-> <<>>,
     newAlerts |-> <<>>, output |-> NoOutput, exitCode |-> 0]

NoCalc == [fn |-> "none"]

(* ema-breakout-scanner.js before its first scan: no state file, no output *)
IdleScanner ==
    [pc |-> "idle", stateFile |-> NoState, lastAlerted |-> NoMap, now |-> 0,
     results |-> <<>>, newAlerts |-> <<>>,
     outputFile |-> [exists |-> FALSE, alerts |-> <<>>, allSignals |-> <<>>],
     alertedAt |-> NoMap]

(* polymarket-tracker.js before its first scan: no state file, no alert *)
IdleTracker ==
    [pc |-> "idle", stateFile |-> [exists |-> FALSE, markets |-> NoMap, cooldowns |-> NoMap],
     currentMarkets |-> NoMap, markets |-> NoMap, cooldowns |-> NoMap, now |-> 0,
     newAlerts |-> <<>>, sent |-> <<>>]

StartClock == COOLDOWN + 1
TickSteps == {1, COOLDOWN - 1}

Init ==
    /\ clock = StartClock
    /\ ticks = 0
    /\ started = 0
    /\ stateFile = NoState
    /\ outputFile = NoOutput
    /\ run = [p \in Procs |-> IdleRun]
    /\ history = <<>>
    /\ emitted = NoMap
    /\ scanner = IdleScanner
    /\ tracker = IdleTracker
    /\ calc = NoCalc

(* Time passes on the host.  main() reads the clock at line 519 and line     *)
(* 769 only, so a tick during the two writes is the same as one after them. *)
Tick ==
    /\ ticks < MaxTicks
    /\ \A p \in DOMAIN run : run[p].pc \notin {"writing", "saving"}
    /\ \E d \in TickSteps : clock' = clock + d
    /\ ticks' = ticks + 1
    /\ UNCHANGED <<started, stateFile, outputFile, run, history, emitted, calc, scanner, tracker>>

(* main() lines 508-580: the scheduler starts the process, which reads the  *)
(* funding snapshot, the state file, the clock and the other snapshots.     *)
LoadSnap(fs) ==
    [rsiData |-> LoadRsi(fs.rsi), emaData |-> LoadEma(fs.ema), mtfData |-> LoadMtf(fs.mtf),
     obData |-> LoadOb(fs.ob), volData |-> LoadVol(fs.vol)]

Loaded(fs, file, t) ==
    IF ~FundingReadable(fs.funding)
    THEN [IdleRun EXCEPT !.pc = "failed", !.inputs = fs, !.exitCode = 1]
    ELSE [IdleRun EXCEPT !.pc = "evaluating", !.inputs = fs, !.coins = fs.funding.coins,
                         !.lastAlerted = loadState(file), !.now = t, !.snap = LoadSnap(fs)]

Begin(p, F, cap) ==
    /\ run[p].pc \in {"idle", "done", "failed"}
    /\ started < cap
    /\ \E fs \in F : run' = [run EXCEPT ![p] = Loaded(fs, stateFile, clock)]
    /\ started' = started + 1
    /\ UNCHANGED <<clock, ticks, stateFile, outputFile, history, emitted, calc, scanner, tracker>>

MakeOutput_AnyCandidate(alerts, newAlerts, t) ==
    [exists |-> TRUE,
     hasNewAlerts |-> Len(alerts) > 0,
     alerts |-> newAlerts,
     allCandidates |-> alerts,
     timestamp |-> t]

(* The output object, main() lines 765-770 *)
MakeOutput(alerts, newAlerts, t) ==
    [exists |-> TRUE,
     hasNewAlerts |-> Len(newAlerts) > 0,
     alerts |-> newAlerts,
     allCandidates |-> alerts,
     timestamp |-> t]

Evaluated_RefreshesSuppressed(r, t) ==
    IF Throws(r.coins)
    THEN [r EXCEPT !.pc = "failed", !.exitCode = 1]
    ELSE LET alerts == CollectAlerts(r.coins, r.snap)
             newAlerts == FilterNew(alerts, r.lastAlerted, r.now)
         IN [r EXCEPT !.pc = "writing",
                      !.alerts = alerts,
                      !.log = CollectLog(r.coins, r.snap.rsiData),
                      !.newAlerts = newAlerts,
                      !.lastAlerted = MarkNew(r.lastAlerted, alerts, r.now),
                      !.output = MakeOutput(alerts, newAlerts, t)]

(* main() lines 582-770: the loop over the funding entries, the cooldown    *)
(* filter, the marking of the new alerts and the output object.             *)
Evaluated(r, t) ==
    IF Throws(r.coins)
    THEN [r EXCEPT !.pc = "failed", !.exitCode = 1]
    ELSE LET alerts == CollectAlerts(r.coins, r.snap)
             newAlerts == FilterNew(alerts, r.lastAlerted, r.now)
         IN [r EXCEPT !.pc = "writing",
                      !.alerts = alerts,
                      !.log = CollectLog(r.coins, r.snap.rsiData),
                      !.newAlerts = newAlerts,
                      !.lastAlerted = MarkNew(r.lastAlerted, newAlerts, r.now),
                      !.output = MakeOutput(alerts, newAlerts, t)]

Evaluate_WritesAsItGoes(p) ==
    /\ run[p].pc = "evaluating"
    /\ run' = [run EXCEPT ![p] = Evaluated(run[p], clock)]
    /\ outputFile' = MakeOutput(<<>>, <<>>, clock)
    /\ UNCHANGED <<clock, ticks, started, stateFile, history, emitted, calc, scanner, tracker>>

Evaluate(p) ==
    /\ run[p].pc = "evaluating"
    /\ run' = [run EXCEPT ![p] = Evaluated(run[p], clock)]
    /\ UNCHANGED <<clock, ticks, started, stateFile, outputFile, history, emitted, calc, scanner, tracker>>

(* main() line 791 *)
WriteOutput(p) ==
    /\ run[p].pc = "writing"
    /\ outputFile' = run[p].output
    /\ run' = [run EXCEPT ![p].pc = "saving"]
    /\ UNCHANGED <<clock, ticks, started, stateFile, history, emitted, calc, scanner, tracker>>

(* main() lines 792-796: saveState, then the process ends with code 0 and   *)
(* its locals are gone; history keeps what the invocation reported.         *)
Summary(r) ==
    [now |-> r.now, candidates |-> KeySeq(r.alerts), alerts |-> KeySeq(r.newAlerts),
     hasNewAlerts |-> r.output.hasNewAlerts, saved |-> r.lastAlerted]

LatestTwo(h) == IF Len(h) > 2 THEN Tail(h) ELSE h

Exited(code) == [IdleRun EXCEPT !.pc = "done", !.exitCode = code]

SaveState_Merging(p) ==
    /\ run[p].pc = "saving"
    /\ stateFile' = saveState([k \in DOMAIN loadState(stateFile) \cup DOMAIN run[p].lastAlerted |->
                                  IF k \in DOMAIN run[p].lastAlerted THEN run[p].lastAlerted[k]
                                  ELSE loadState(stateFile)[k]])
    /\ run' = [run EXCEPT ![p] = Exited(0)]
    /\ history' = LatestTwo(Append(history, Summary(run[p])))
    /\ emitted' = MarkNew(emitted, run[p].newAlerts, run[p].now)
    /\ UNCHANGED <<clock, ticks, started, outputFile, calc, scanner, tracker>>

SaveState(p) ==
    /\ run[p].pc = "saving"
    /\ stateFile' = saveState(run[p].lastAlerted)
    /\ run' = [run EXCEPT ![p] = Exited(0)]
    /\ history' = LatestTwo(Append(history, Summary(run[p])))
    /\ emitted' = MarkNew(emitted, run[p].newAlerts, run[p].now)
    /\ UNCHANGED <<clock, ticks, started, outputFile, calc, scanner, tracker>>

Step(p) == Evaluate(p) \/ WriteOutput(p) \/ SaveState(p)

Next == Tick \/ \E p \in Procs : Begin(p, MainFiles, MaxRuns) \/ Step(p)
Spec == Init /\ [][Next]_vars

NextGate == Tick \/ \E p \in Procs : Begin(p, GateFiles, GateRuns) \/ Step(p)
SpecGate == Init /\ [][NextGate]_vars

NextOpt == Tick \/ \E p \in Procs : Begin(p, OptFiles, OptRuns) \/ Step(p)
SpecOpt == Init /\ [][NextOpt]_vars

(* Two invocations that the scheduler lets overlap: nothing in main() locks  *)
(* the state file, so each of them loads, evaluates, writes and saves on    *)
(* its own.                                                                 *)
Overlapping == {1, 2}

OverlapFiles ==
    {Files(Funding(coins), RsiBoth, EmaFull, MtfFull, ObFull, VolFull) :
        coins \in {<<BtcShorts>>, <<BtcShorts, EthLongs>>}}

InitOverlap ==
    /\ clock = StartClock
    /\ ticks = 0
    /\ started = 0
    /\ stateFile = NoState
    /\ outputFile = NoOutput
    /\ run = [p \in Overlapping |-> IdleRun]
    /\ history = <<>>
    /\ emitted = NoMap
    /\ scanner = IdleScanner
    /\ tracker = IdleTracker
    /\ calc = NoCalc

NextOverlap == Tick \/ \E p \in Overlapping : Begin(p, OverlapFiles, OverlapRuns) \/ Step(p)
SpecOverlap == InitOverlap /\ [][NextOverlap]_vars

-----------------------------------------------------------------------------
(* The indicator routines, called on their own.  Nothing runs beside the    *)
(* call: the files and the invocations stay as Init leaves them.            *)

AtRest ==
    /\ clock = StartClock
    /\ ticks = 0
    /\ started = 0
    /\ stateFile = NoState
    /\ outputFile = NoOutput
    /\ run = [p \in Procs |-> IdleRun]
    /\ history = <<>>
    /\ emitted = NoMap
    /\ scanner = IdleScanner
    /\ tracker = IdleTracker

StaysAtRest ==
    UNCHANGED <<clock, ticks, started, stateFile, outputFile, run, history, emitted,
                scanner, tracker>>

calculateSentiment_Inclusive(avgRate) ==
    IF avgRate >= 6000 THEN "longs_crowded"
    ELSE IF avgRate >= 1000 THEN "bullish"
    ELSE IF avgRate <= 0 - 6000 THEN "shorts_crowded"
    ELSE IF avgRate <= 0 - 1000 THEN "bearish"
    ELSE "neutral"

(* calculateSentiment, lines 302-308; avgRate in millionths *)
calculateSentiment(avgRate) ==
    IF avgRate > 6000 THEN "longs_crowded"
    ELSE IF avgRate > 1000 THEN "bullish"
    ELSE IF avgRate < 0 - 6000 THEN "shorts_crowded"
    ELSE IF avgRate < 0 - 1000 THEN "bearish"
    ELSE "neutral"

(* Average rates on a grid of 0.0005 and one millionth either side of it *)
AvgRates == {r * 500 + d : r \in (0 - RateSteps)..RateSteps, d \in {0 - 1, 0, 1}}

InitSent ==
    /\ AtRest
    /\ \E a \in AvgRates :
           calc = [fn |-> "calculateSentiment", avgRate |-> a, calls |-> 0,
                   sentiment |-> "", before |-> ""]

(* coinObj.sentiment = calculateSentiment(avgRate), line 380; the scanner   *)
(* calls it again on its next poll.                                         *)
CallSentiment ==
    /\ calc.fn = "calculateSentiment"
    /\ calc.calls < 2
    /\ calc' = [calc EXCEPT !.calls = @ + 1,
                            !.sentiment = calculateSentiment(calc.avgRate),
                            !.before = calc.sentiment]
    /\ StaysAtRest

NextSent == CallSentiment
SpecSent == InitSent /\ [][NextSent]_vars

(* The moving averages of src/scripts.  A value is the fraction num / den   *)
(* the routine has computed; den = 0 stands for null.                       *)
NullEma == [num |-> 0, den |-> 0]

RECURSIVE Sum(_)
Sum(prices) == IF prices = <<>> THEN 0 ELSE Head(prices) + Sum(Tail(prices))

(* prices.slice(0, period).reduce((a, b) => a + b, 0) / period *)
Seed(prices, period) == [num |-> Sum(SubSeq(prices, 1, period)), den |-> period]

EmaNext_WeightsSwapped(price, ema, period) ==
    [num |-> (period - 1) * price * ema.den + 2 * ema.num, den |-> (period + 1) * ema.den]

(* ema = prices[i] * k + ema * (1 - k) with k = 2 / (period + 1) *)
EmaNext(price, ema, period) ==
    [num |-> 2 * price * ema.den + (period - 1) * ema.num, den |-> (period + 1) * ema.den]

(* The for-loop from index i (1-based) to the end; it carries ema and the   *)
(* ema of the step before.                                                  *)
RECURSIVE EmaLoop(_, _, _, _, _)
EmaLoop(prices, period, i, ema, prevEma) ==
    IF i > Len(prices) THEN [current |-> ema, prev |-> prevEma]
    ELSE EmaLoop(prices, period, i + 1, EmaNext(prices[i], ema, period), ema)

(* ema-checker.js, calculateEMA, lines 52-60 *)
calculateEMA(prices, period) ==
    IF Len(prices) < period THEN NullEma
    ELSE EmaLoop(prices, period, period + 1, Seed(prices, period), Seed(prices, period)).current

(* multi-tf-analyzer.js, calcEMA, lines 45-53 *)
calcEMA(closes, period) ==
    IF Len(closes) < period THEN NullEma
    ELSE EmaLoop(closes, period, period + 1, Seed(closes, period), Seed(closes, period)).current

(* ema-breakout-scanner.js, calculateEMA, lines 51-61 *)
scannerCalculateEMA(prices, period) ==
    IF Len(prices) < period + 5 THEN [current |-> NullEma, prev |-> NullEma]
    ELSE EmaLoop(prices, period, period + 1, Seed(prices, period), Seed(prices, period))

PriceLevels == {1, 2}

RECURSIVE Series(_)
Series(n) ==
    IF n = 0 THEN {<<>>}
    ELSE Series(n - 1) \cup {Append(s, x) : s \in {t \in Series(n - 1) : Len(t) = n - 1}, x \in PriceLevels}

EmaRoutines == {"ema-checker.calculateEMA", "multi-tf-analyzer.calcEMA", "ema-breakout-scanner.calculateEMA"}

InitEma ==
    /\ AtRest
    /\ \E f \in EmaRoutines, s \in Series(MaxLen), n \in 1..MaxPeriod :
           calc = [fn |-> f, prices |-> s, period |-> n, returned |-> FALSE,
                   current |-> NullEma, prev |-> NullEma]

CallCheckerEMA ==
    /\ calc.fn = "ema-checker.calculateEMA"
    /\ ~calc.returned
    /\ calc' = [calc EXCEPT !.returned = TRUE,
                            !.current = calculateEMA(calc.prices, calc.period)]
    /\ StaysAtRest

CallMtfEMA ==
    /\ calc.fn = "multi-tf-analyzer.calcEMA"
    /\ ~calc.returned
    /\ calc' = [calc EXCEPT !.returned = TRUE,
                            !.current = calcEMA(calc.prices, calc.period)]
    /\ StaysAtRest

CallScannerEMA ==
    /\ calc.fn = "ema-breakout-scanner.calculateEMA"
    /\ ~calc.returned
    /\ calc' = [calc EXCEPT !.returned = TRUE,
                            !.current = scannerCalculateEMA(calc.prices, calc.period).current,
                            !.prev = scannerCalculateEMA(calc.prices, calc.period).prev]
    /\ StaysAtRest

NextEma == CallCheckerEMA \/ CallMtfEMA \/ CallScannerEMA
SpecEma == InitEma /\ [][NextEma]_vars

(* The relative-strength routines of src/scripts.  closes[i] of the source, *)
(* counted from 0, is closes[i + 1] here.                                   *)
Change(closes, i) == closes[i + 1] - closes[i]

RECURSIVE Gcd(_, _)
Gcd(a, b) == IF b = 0 THEN a ELSE Gcd(b, a % b)

Lowest(v) == LET g == Gcd(v.num, v.den) IN [num |-> v.num \div g, den |-> v.den \div g]

Hundred == [num |-> 100, den |-> 1]

(* Math.round(x * 100) / 100 of a value that is not negative *)
Round2(v) == Lowest([num |-> (200 * v.num + v.den) \div (2 * v.den), den |-> 100])

RsiOf_FlatIsNeutral(avgGain, avgLoss) ==
    IF avgGain.num = 0 /\ avgLoss.num = 0 THEN [num |-> 50, den |-> 1]
    ELSE Lowest([num |-> 100 * avgGain.num * avgLoss.den,
                 den |-> avgGain.num * avgLoss.den + avgLoss.num * avgGain.den])

(* if (avgLoss === 0) return 100; rs = avgGain / avgLoss;                   *)
(* 100 - 100 / (1 + rs).  The routines that round leave the 100 of the      *)
(* first return as it is.                                                   *)
RsiOf(avgGain, avgLoss) ==
    IF avgLoss.num = 0 THEN Hundred
    ELSE Lowest([num |-> 100 * avgGain.num * avgLoss.den,
                 den |-> avgGain.num * avgLoss.den + avgLoss.num * avgGain.den])

(* The sums of the rises and of the falls over the source indices from..to *)
RECURSIVE SumGains(_, _, _)
SumGains(closes, from, to) ==
    IF from > to THEN 0
    ELSE (IF Change(closes, from) > 0 THEN Change(closes, from) ELSE 0)
         + SumGains(closes, from + 1, to)

RECURSIVE SumLosses(_, _, _)
SumLosses(closes, from, to) ==
    IF from > to THEN 0
    ELSE (IF Change(closes, from) > 0 THEN 0 ELSE Abs(Change(closes, from)))
         + SumLosses(closes, from + 1, to)

(* avg = (avg * (period - 1) + value) / period *)
Smooth(avg, value, period) ==
    Lowest([num |-> avg.num * (period - 1) + value * avg.den, den |-> period * avg.den])

(* The second loop of the rsi-checker, from source index i to the end *)
RECURSIVE SmoothLoop(_, _, _, _, _)
SmoothLoop(closes, period, i, avgGain, avgLoss) ==
    IF i > Len(closes) - 1 THEN [avgGain |-> avgGain, avgLoss |-> avgLoss]
    ELSE LET change == Change(closes, i)
             gain == IF change > 0 THEN change ELSE 0
             loss == IF change < 0 THEN Abs(change) ELSE 0
         IN SmoothLoop(closes, period, i + 1,
                       Smooth(avgGain, gain, period), Smooth(avgLoss, loss, period))

(* rsi-checker, calculateRSI, polymarket-tracker.js lines 467-496 *)
calculateRSI(closes, period) ==
    IF Len(closes) < period + 1 THEN NullEma
    ELSE LET avgs == SmoothLoop(closes, period, period + 1,
                                [num |-> SumGains(closes, 1, period), den |-> period],
                                [num |-> SumLosses(closes, 1, period), den |-> period])
         IN Round2(RsiOf(avgs.avgGain, avgs.avgLoss))

(* multi-tf-analyzer.js, calcRSI, lines 55-65: the last `period` changes *)
calcRSI(closes, period) ==
    IF Len(closes) < period + 1 THEN NullEma
    ELSE LET gains == SumGains(closes, Len(closes) - period, Len(closes) - 1)
             losses == SumLosses(closes, Len(closes) - period, Len(closes) - 1)
         IN RsiOf([num |-> gains, den |-> period], [num |-> losses, den |-> period])

(* ema-breakout-scanner.js, calculateRSI, lines 63-75 *)
scannerCalculateRSI(closes, period) ==
    IF Len(closes) < period + 1 THEN NullEma
    ELSE LET gains == SumGains(closes, Len(closes) - period, Len(closes) - 1)
             losses == SumLosses(closes, Len(closes) - period, Len(closes) - 1)
             avgGain == [num |-> gains, den |-> period]
             avgLoss == [num |-> losses, den |-> period]
         IN Round2(RsiOf(avgGain, avgLoss))

RsiRoutines == {"rsi-checker.calculateRSI", "multi-tf-analyzer.calcRSI", "ema-breakout-scanner.calculateRSI"}

InitRsi ==
    /\ AtRest
    /\ \E f \in RsiRoutines, s \in Series(MaxLen), n \in 1..MaxPeriod :
           calc = [fn |-> f, closes |-> s, period |-> n, returned |-> FALSE, rsi |-> NullEma]

CallCheckerRSI ==
    /\ calc.fn = "rsi-checker.calculateRSI"
    /\ ~calc.returned
    /\ calc' = [calc EXCEPT !.returned = TRUE, !.rsi = calculateRSI(calc.closes, calc.period)]
    /\ StaysAtRest

CallMtfRSI ==
    /\ calc.fn = "multi-tf-analyzer.calcRSI"
    /\ ~calc.returned
    /\ calc' = [calc EXCEPT !.returned = TRUE, !.rsi = calcRSI(calc.closes, calc.period)]
    /\ StaysAtRest

CallScannerRSI ==
    /\ calc.fn = "ema-breakout-scanner.calculateRSI"
    /\ ~calc.returned
    /\ calc' = [calc EXCEPT !.returned = TRUE,
                            !.rsi = scannerCalculateRSI(calc.closes, calc.period)]
    /\ StaysAtRest

NextRsi == CallCheckerRSI \/ CallMtfRSI \/ CallScannerRSI
SpecRsi == InitRsi /\ [][NextRsi]_vars

(* Domain of the sentiment: one funding entry as the scanner writes it, its *)
(* sentiment computed from its avgRate, at and around the thresholds, with  *)
(* and without exchange divergence; RSI values from 0 to overbought.        *)
RateEntries ==
    {Entry("BTC", calculateSentiment(avg), avg, spread, 5000000) :
        avg \in {6000, 0 - 6000, 6001, 0 - 6001, 500}, spread \in {500, 2001}}

RateRsi ==
    {CoinsFile([c \in {"BTC"} |-> v]) : v \in {0, 2800, 3500, 5000, 6500, 7200}}
    \cup {CoinsFileBad("absent")}

RateFiles ==
    {Files(Funding(<<e>>), rs, EmaFull, MtfFull, ObFull, VolFull) : e \in RateEntries, rs \in RateRsi}

NextRate == Tick \/ \E p \in Procs : Begin(p, RateFiles, RateRuns) \/ Step(p)
SpecRate == Init /\ [][NextRate]_vars

(* The state file damaged between two invocations: what it held is still   *)
(* on disk but JSON.parse throws on it, so loadState takes its catch.       *)
CorruptState ==
    /\ stateFile.status = "ok"
    /\ \A p \in DOMAIN run : run[p].pc \in {"idle", "done", "failed"}
    /\ stateFile' = [stateFile EXCEPT !.status = "unparseable"]
    /\ UNCHANGED <<clock, ticks, started, outputFile, run, history, emitted, calc, scanner, tracker>>

CorruptFiles ==
    {Files(Funding(coins), RsiBoth, EmaFull, MtfFull, ObFull, VolFull) :
        coins \in {<<>>, <<BtcShorts>>, <<BtcShorts, EthLongs>>}}

NextCorrupt == Tick \/ CorruptState \/ \E p \in Procs : Begin(p, CorruptFiles, CorruptRuns) \/ Step(p)
SpecCorrupt == Init /\ [][NextCorrupt]_vars

-----------------------------------------------------------------------------
(* ema-breakout-scanner.js, main(): sequential scans.  A result is a coin    *)
(* with the signals scanCoin detected for it; the cooldown key of a signal   *)
(* is `${r.coin}_${s.type}_${s.timeframe}`.                                  *)

COOLDOWN_MS == 4 * 60 * 60 * 1000

ScanKey(coin, s) == <<coin, s.type, s.timeframe>>

(* loadState / saveState, lines 118-125 *)
scannerLoadState(file) == IF file.status = "ok" THEN Parse(file.members) ELSE NoMap

scannerSaveState(lastAlerted) == [status |-> "ok", members |-> Stringify(lastAlerted)]

RECURSIVE FreshSignals_MarkAfter(_, _, _, _)
FreshSignals_MarkAfter(signals, coin, lastAlerted, now) ==
    IF signals = <<>> THEN [fresh |-> <<>>, lastAlerted |-> lastAlerted]
    ELSE LET key == ScanKey(coin, Head(signals))
             pass == now - Last(lastAlerted, key) > COOLDOWN_MS
             rest == FreshSignals_MarkAfter(Tail(signals), coin, lastAlerted, now)
         IN [fresh |-> (IF pass THEN <<Head(signals)>> ELSE <<>>) \o rest.fresh,
             lastAlerted |-> IF pass
                             THEN [k \in DOMAIN rest.lastAlerted \cup {key} |->
                                      IF k = key THEN now ELSE rest.lastAlerted[k]]
                             ELSE rest.lastAlerted]

(* r.signals.filter(...) of lines 276-284: a signal that passes marks its   *)
(* key at once, so the signals after it see the mark.                       *)
RECURSIVE FreshSignals(_, _, _, _)
FreshSignals(signals, coin, lastAlerted, now) ==
    IF signals = <<>> THEN [fresh |-> <<>>, lastAlerted |-> lastAlerted]
    ELSE LET key == ScanKey(coin, Head(signals))
             pass == now - Last(lastAlerted, key) > COOLDOWN_MS
             marked == IF pass
                       THEN [k \in DOMAIN lastAlerted \cup {key} |->
                                IF k = key THEN now ELSE lastAlerted[k]]
                       ELSE lastAlerted
             rest == FreshSignals(Tail(signals), coin, marked, now)
         IN [fresh |-> (IF pass THEN <<Head(signals)>> ELSE <<>>) \o rest.fresh,
             lastAlerted |-> rest.lastAlerted]

(* The loop of lines 274-288 over the results *)
RECURSIVE CooldownFilter(_, _, _)
CooldownFilter(results, lastAlerted, now) ==
    IF results = <<>> THEN [newAlerts |-> <<>>, lastAlerted |-> lastAlerted]
    ELSE LET r == Head(results)
             f == FreshSignals(r.signals, r.coin, lastAlerted, now)
             rest == CooldownFilter(Tail(results), f.lastAlerted, now)
         IN [newAlerts |-> (IF Len(f.fresh) > 0
                            THEN <<[coin |-> r.coin, signals |-> f.fresh]>> ELSE <<>>)
                           \o rest.newAlerts,
             lastAlerted |-> rest.lastAlerted]

Above1h == [type |-> "CROSS_ABOVE_200", timeframe |-> "1h"]
Above4h == [type |-> "CROSS_ABOVE_200", timeframe |-> "4h"]
Below4h == [type |-> "CROSS_BELOW_200", timeframe |-> "4h"]

Result(coin, signals) == [coin |-> coin, signals |-> signals]

ScanResults ==
    {<<>>,
     <<Result("BTC", <<Above1h>>)>>,
     <<Result("BTC", <<Above1h, Above4h>>)>>,
     <<Result("BTC", <<Above1h, Above1h>>)>>,
     <<Result("BTC", <<Above1h>>), Result("BTC", <<Above1h>>)>>,
     <<Result("BTC", <<Above1h>>), Result("ETH", <<Below4h>>)>>}

AlertKeys(alerts) ==
    {ScanKey(alerts[i].coin, alerts[i].signals[j]) :
        <<i, j>> \in {x \in (1..Len(alerts)) \X (1..2) : x[2] <= Len(alerts[x[1]].signals)}}

OnlyScanner == UNCHANGED <<clock, ticks, stateFile, outputFile, run, history, emitted, calc, tracker>>

(* Lines 228-272: the state is loaded, now is taken, the coins are scanned *)
ScanBegin ==
    /\ scanner.pc \in {"idle", "done"}
    /\ started < ScanRuns
    /\ \E res \in ScanResults :
           scanner' = [scanner EXCEPT !.pc = "filtering",
                                      !.lastAlerted = scannerLoadState(scanner.stateFile),
                                      !.now = clock,
                                      !.results = res,
                                      !.newAlerts = <<>>]
    /\ started' = started + 1
    /\ OnlyScanner

(* Lines 273-288 *)
ScanFilter ==
    /\ scanner.pc = "filtering"
    /\ LET f == CooldownFilter(scanner.results, scanner.lastAlerted, scanner.now)
       IN scanner' = [scanner EXCEPT !.pc = "writing",
                                     !.newAlerts = f.newAlerts,
                                     !.lastAlerted = f.lastAlerted]
    /\ UNCHANGED started
    /\ OnlyScanner

(* Lines 290-301 *)
ScanWrite ==
    /\ scanner.pc = "writing"
    /\ scanner' = [scanner EXCEPT !.pc = "saving",
                                  !.outputFile = [exists |-> TRUE,
                                                  alerts |-> scanner.newAlerts,
                                                  allSignals |-> scanner.results]]
    /\ UNCHANGED started
    /\ OnlyScanner

(* Line 302; alertedAt keeps, per key, the now of the latest scan that put   *)
(* the key into its alerts.                                                 *)
ScanSave ==
    /\ scanner.pc = "saving"
    /\ scanner' = [scanner EXCEPT
           !.pc = "done",
           !.stateFile = scannerSaveState(scanner.lastAlerted),
           !.alertedAt = [k \in DOMAIN scanner.alertedAt \cup AlertKeys(scanner.newAlerts) |->
                             IF k \in AlertKeys(scanner.newAlerts) THEN scanner.now
                             ELSE scanner.alertedAt[k]]]
    /\ UNCHANGED started
    /\ OnlyScanner

NextScan == Tick \/ ScanBegin \/ ScanFilter \/ ScanWrite \/ ScanSave
SpecScan == Init /\ [][NextScan]_vars

-----------------------------------------------------------------------------
(* polymarket-tracker.js, scan(): every scan is a process of its own that   *)
(* loads and saves its state.  A market is followed through the price of    *)
(* one outcome, in cents; its liquidity is above MIN_LIQUIDITY_ALERT.       *)

SHIFT_THRESHOLD_FAST == 10
SHIFT_THRESHOLD_SLOW == 15
MIN_UPSIDE == 25
FLIP_THRESHOLD == 50
MARKET_COOLDOWN == 6 * 60 * 60 * 1000
HOUR_MS == 60 * 60 * 1000

Markets == <<"M1", "M2">>

(* prev.history.find(h => h.time <= oneHourAgo), lines 159-161 *)
OldSnapshot(snapshots, now) ==
    LET old == {i \in 1..Len(snapshots) : snapshots[i].time <= now - HOUR_MS}
    IN IF old = {} THEN <<>> ELSE <<snapshots[CHOOSE i \in old : \A j \in old : i <= j]>>

(* The alerts detectShifts collects for one market, lines 128-192 *)
ShiftsOf(id, price, prev, now) ==
    LET fast == IF Abs(price - prev.price) >= SHIFT_THRESHOLD_FAST
                THEN <<[type |-> "ODDS_SHIFT", marketId |-> id, prevPrice |-> prev.price,
                        oldPrice |-> 0, currentPrice |-> price]>>
                ELSE <<>>
        old == OldSnapshot(prev.history, now)
        slow == IF /\ old # <<>>
                   /\ Abs(price - old[1].price) >= SHIFT_THRESHOLD_SLOW
                   /\ fast = <<>>
                THEN <<[type |-> "SLOW_DRIFT", marketId |-> id, prevPrice |-> 0,
                        oldPrice |-> old[1].price, currentPrice |-> price]>>
                ELSE <<>>
    IN fast \o slow

(* The two filters of lines 197-215: upside and flip across 50 cents *)
Flipped(a) ==
    LET price == a.currentPrice
        cheapSide == IF price < 100 - price THEN price ELSE 100 - price
        prev == IF a.prevPrice # 0 THEN a.prevPrice ELSE a.oldPrice
    IN /\ cheapSide >= MIN_UPSIDE
       /\ \/ prev >= FLIP_THRESHOLD /\ price < FLIP_THRESHOLD
          \/ prev < FLIP_THRESHOLD /\ price >= FLIP_THRESHOLD

(* detectShifts, lines 125-218 *)
RECURSIVE detectShifts(_, _, _, _)
detectShifts(ids, currentMarkets, markets, now) ==
    IF ids = <<>> THEN <<>>
    ELSE (IF Head(ids) \in DOMAIN currentMarkets /\ Head(ids) \in DOMAIN markets
          THEN SelectSeq(ShiftsOf(Head(ids), currentMarkets[Head(ids)], markets[Head(ids)], now),
                         Flipped)
          ELSE <<>>)
         \o detectShifts(Tail(ids), currentMarkets, markets, now)

(* Lines 266-291: one snapshot per scan, six hours and 24 snapshots at most, *)
(* markets that are gone are deleted.                                       *)
UpdatedMarkets(currentMarkets, markets, now) ==
    [id \in DOMAIN currentMarkets |->
        LET snapshots == (IF id \in DOMAIN markets THEN markets[id].history ELSE <<>>)
                         \o <<[time |-> now, price |-> currentMarkets[id]]>>
            trimmed == SelectSeq(snapshots, LAMBDA h : h.time >= now - MARKET_COOLDOWN)
        IN [price |-> currentMarkets[id],
            history |-> IF Len(trimmed) > 24
                        THEN SubSeq(trimmed, Len(trimmed) - 23, Len(trimmed)) ELSE trimmed]]

(* Lines 297-303 *)
CooldownFiltered(newAlerts, cooldowns, now) ==
    SelectSeq(newAlerts, LAMBDA a : ~((now - Last(cooldowns, a.marketId)) < MARKET_COOLDOWN))

(* Lines 306-313: the marks of the alerts that passed, old marks dropped *)
MarkedCooldowns(filtered, cooldowns, now) ==
    LET ids == {filtered[i].marketId : i \in 1..Len(filtered)}
        marked == [id \in DOMAIN cooldowns \cup ids |-> IF id \in ids THEN now ELSE cooldowns[id]]
    IN Restrict(marked, {id \in DOMAIN marked : ~(now - marked[id] > MARKET_COOLDOWN * 2)})

(* What fetchMarkets and the loop of lines 232-261 leave in currentMarkets; *)
(* events is FALSE when nothing was fetched.                                *)
TrackFetches ==
    {[events |-> FALSE, markets |-> NoMap]}
    \cup {[events |-> TRUE, markets |-> m] :
             m \in {[id \in {"M1"} |-> 40], [id \in {"M1"} |-> 60],
                    [id \in {"M1", "M2"} |-> IF id = "M1" THEN 60 ELSE 40]}}

TrackStartClock == MARKET_COOLDOWN + 1

InitTrack ==
    /\ clock = TrackStartClock
    /\ ticks = 0
    /\ started = 0
    /\ stateFile = NoState
    /\ outputFile = NoOutput
    /\ run = [p \in Procs |-> IdleRun]
    /\ history = <<>>
    /\ emitted = NoMap
    /\ calc = NoCalc
    /\ scanner = IdleScanner
    /\ tracker = IdleTracker

OnlyTracker == UNCHANGED <<clock, ticks, stateFile, outputFile, run, history, emitted, calc, scanner>>

(* Lines 223-230: the state is loaded; a scan that fetched nothing returns *)
TrackBegin ==
    /\ tracker.pc \in {"idle", "done"}
    /\ started < TrackRuns
    /\ \E f \in TrackFetches :
           tracker' = [tracker EXCEPT !.pc = IF f.events THEN "scanning" ELSE "done",
                                      !.markets = tracker.stateFile.markets,
                                      !.cooldowns = tracker.stateFile.cooldowns,
                                      !.currentMarkets = f.markets,
                                      !.now = clock,
                                      !.newAlerts = <<>>]
    /\ started' = started + 1
    /\ OnlyTracker

(* Lines 264-293: detectShifts, the update of the markets and saveState,    *)
(* which writes the state object as it is at that line.                     *)
TrackSaveState ==
    /\ tracker.pc = "scanning"
    /\ LET updated == UpdatedMarkets(tracker.currentMarkets, tracker.markets, tracker.now)
       IN tracker' = [tracker EXCEPT
              !.pc = "cooling",
              !.newAlerts = detectShifts(Markets, tracker.currentMarkets, tracker.markets,
                                         tracker.now),
              !.markets = updated,
              !.stateFile = [exists |-> TRUE, markets |-> updated,
                             cooldowns |-> tracker.cooldowns]]
    /\ UNCHANGED started
    /\ OnlyTracker

(* Lines 295-322: the cooldown filter and its marks, on the state object in *)
(* memory; the alerts that pass are sent (saveAlerts).                      *)
TrackCooldown ==
    /\ tracker.pc = "cooling"
    /\ LET filtered == CooldownFiltered(tracker.newAlerts, tracker.cooldowns, tracker.now)
       IN tracker' = [tracker EXCEPT
              !.pc = "done",
              !.newAlerts = filtered,
              !.cooldowns = MarkedCooldowns(filtered, tracker.cooldowns, tracker.now),
              !.sent = tracker.sent
                       \o [i \in 1..Len(filtered) |->
                              [marketId |-> filtered[i].marketId, time |-> tracker.now]]]
    /\ UNCHANGED started
    /\ OnlyTracker

NextTrack == Tick \/ TrackBegin \/ TrackSaveState \/ TrackCooldown
SpecTrack == InitTrack /\ [][NextTrack]_vars

(* Domain of the cooldown keys: the same instrument crowded on either side *)
BtcLongs == Entry("BTC", "longs_crowded", 9000, 500, 5000000)

RsiHigh == CoinsFile([c \in Coins |-> 7200])

KeyFiles ==
    {Files(Funding(x[1]), x[2], EmaFull, MtfFull, ObFull, VolFull) :
        x \in {<<<<>>, RsiBoth>>, <<<<BtcShorts>>, RsiBoth>>, <<<<BtcLongs>>, RsiHigh>>,
               <<<<BtcShorts, EthLongs>>, RsiBoth>>, <<<<BtcLongs, EthLongs>>, RsiHigh>>}}

NextKeys == Tick \/ \E p \in Procs : Begin(p, KeyFiles, KeyRuns) \/ Step(p)
SpecKeys == Init /\ [][NextKeys]_vars

NextEntry == Tick \/ \E p \in Procs : Begin(p, EntryFiles, EntryRuns) \/ Step(p)
SpecEntry == Init /\ [][NextEntry]_vars

NextConv ==
    Tick \/ \E p \in Procs :
                Begin(p, IF started = 0 THEN ConvFiles ELSE ConvRepeat, ConvRuns) \/ Step(p)
SpecConv == Init /\ [][NextConv]_vars

-----------------------------------------------------------------------------
(* Vocabulary of the properties, stated on funding entries and files        *)
(* without reference to the operators above.                                *)

Post == {"writing", "saving", "done"}

RuleFires(e) ==
    \/ e.sentiment \in {"shorts_crowded", "longs_crowded"} /\ e.oiUsd > 1000000
    \/ e.maxRate - e.minRate > 2000 /\ e.oiUsd > 1000000
       /\ (e.avgRate >= 6000 \/ e.avgRate <= 0 - 6000)

HasRsiValue(file, c) == file.status = "ok" /\ c \in DOMAIN file.coins

GatePasses(e, file) ==
    /\ HasRsiValue(file, e.coin)
    /\ \/ e.sentiment = "shorts_crowded" /\ file.coins[e.coin] <= 3500
       \/ e.sentiment = "longs_crowded" /\ file.coins[e.coin] >= 6500

FromEntry(a, e) ==
    /\ a.coin = e.coin /\ a.sentiment = e.sentiment
    /\ a.avgRate = e.avgRate /\ a.oiUsd = e.oiUsd

Among(e, alerts) == \E j \in 1..Len(alerts) : FromEntry(alerts[j], e)

Logged(e, log) == \E j \in 1..Len(log) : log[j].coin = e.coin

\* C1: an entry whose instrument has no RSI value in the RSI snapshot is in
\* neither allCandidates nor alerts, whatever its funding figures are.
C1_NoRsiNoAlert ==
    \A p \in Procs : run[p].pc \in Post =>
        \A i \in 1..Len(run[p].coins) :
            ~HasRsiValue(run[p].inputs.rsi, run[p].coins[i].coin) =>
                /\ ~Among(run[p].coins[i], run[p].output.allCandidates)
                /\ ~Among(run[p].coins[i], run[p].output.alerts)
                /\ \A j \in 1..Len(run[p].output.allCandidates) :
                       run[p].output.allCandidates[j].coin # run[p].coins[i].coin

C1_Witness ==
    \E p \in Procs :
        /\ run[p].pc = "saving"
        /\ Len(run[p].coins) = 1
        /\ run[p].coins[1].avgRate = 0 - 20000
        /\ run[p].coins[1].oiUsd = 10000000
        /\ run[p].coins[1].sentiment = "shorts_crowded"
        /\ ~HasRsiValue(run[p].inputs.rsi, run[p].coins[1].coin)
        /\ run[p].output.exists /\ Len(run[p].output.allCandidates) = 0
        /\ outputFile.exists /\ Len(outputFile.alerts) = 0

\* C2: for a candidate with an RSI value, shorts_crowded (LONG) is kept iff
\* RSI <= 35 and longs_crowded (SHORT) is kept iff RSI >= 65; a candidate
\* that fails the gate is absent from allCandidates.
C2_RsiGateExact ==
    \A p \in Procs : run[p].pc \in Post =>
        \A i \in 1..Len(run[p].coins) :
            LET e == run[p].coins[i]
                f == run[p].inputs.rsi
            IN (RuleFires(e) /\ HasRsiValue(f, e.coin)) =>
                /\ e.sentiment = "shorts_crowded" =>
                      (Among(e, run[p].output.allCandidates) <=> f.coins[e.coin] <= 3500)
                /\ e.sentiment = "longs_crowded" =>
                      (Among(e, run[p].output.allCandidates) <=> f.coins[e.coin] >= 6500)

C2_Witness ==
    \E p \in Procs :
        /\ run[p].pc \in Post
        /\ Len(run[p].coins) = 1
        /\ run[p].coins[1].sentiment = "shorts_crowded"
        /\ HasRsiValue(run[p].inputs.rsi, "BTC")
        /\ run[p].inputs.rsi.coins["BTC"] = 3500
        /\ Len(run[p].output.allCandidates) = 1
        /\ run[p].output.allCandidates[1].setupDirection = "LONG"

-----------------------------------------------------------------------------
(* Cooldown vocabulary of the properties *)

FourHours == 4 * 60 * 60 * 1000

RecordKey(a) ==
    <<IF a.setupDirection = "LONG" THEN "shorts_crowded" ELSE "longs_crowded", a.coin>>

Range(seq) == {seq[i] : i \in 1..Len(seq)}

Passed(coins, file) == {i \in 1..Len(coins) : RuleFires(coins[i]) /\ GatePasses(coins[i], file)}

\* C4 (as claimed): a gated candidate is suppressed iff now minus its key's
\* record is strictly less than 4 hours; with no record, or at exactly 4 hours
\* and beyond, it is in newAlerts and the record is set to now.
C4_SuppressedIffUnderFourHours ==
    [][\A p \in Procs : (run[p].pc = "evaluating" /\ run'[p].pc = "writing") =>
        \A j \in 1..Len(run'[p].alerts) :
            LET a == run'[p].alerts[j]
                k == RecordKey(a)
                rec == run[p].lastAlerted
                suppressed == a \notin Range(run'[p].newAlerts)
            IN /\ suppressed <=> (k \in DOMAIN rec /\ run[p].now - rec[k] < FourHours)
               /\ ~suppressed => (k \in DOMAIN run'[p].lastAlerted
                                  /\ run'[p].lastAlerted[k] = run[p].now)]_vars

\* C4 (amended): a gated candidate is suppressed iff its key has a record and
\* now minus the record is at most 4 hours (exactly 4 hours still suppresses);
\* with no record, or with more than 4 hours elapsed, it is in newAlerts and
\* the record is set to now.
C4_SuppressedIffWithinFourHours ==
    [][\A p \in Procs : (run[p].pc = "evaluating" /\ run'[p].pc = "writing") =>
        \A j \in 1..Len(run'[p].alerts) :
            LET a == run'[p].alerts[j]
                k == RecordKey(a)
                rec == run[p].lastAlerted
                suppressed == a \notin Range(run'[p].newAlerts)
            IN /\ suppressed <=> (k \in DOMAIN rec /\ run[p].now - rec[k] <= FourHours)
               /\ ~suppressed => (k \in DOMAIN run'[p].lastAlerted
                                  /\ run'[p].lastAlerted[k] = run[p].now)]_vars

C4_Witness ==
    \E p \in Procs :
        /\ run[p].pc = "writing"
        /\ \E j \in 1..Len(run[p].alerts) :
              /\ run[p].alerts[j] \notin Range(run[p].newAlerts)
              /\ RecordKey(run[p].alerts[j]) \in DOMAIN run[p].lastAlerted
              /\ run[p].now - run[p].lastAlerted[RecordKey(run[p].alerts[j])] = FourHours
        /\ \E j \in 1..Len(run[p].newAlerts) :
              run[p].lastAlerted[RecordKey(run[p].newAlerts[j])] = run[p].now

\* C5 (as claimed): of two consecutive completed runs less than 4 hours
\* apart, a key that is a candidate in both is not alerted by the second,
\* and hasNewAlerts is false when it is the second run's only candidate.
C5_SecondRunSuppressed ==
    Len(history) = 2 =>
        (history[2].now - history[1].now < FourHours =>
            \A k \in Range(history[1].candidates) \cap Range(history[2].candidates) :
                /\ k \notin Range(history[2].alerts)
                /\ Range(history[2].candidates) = {k} => ~history[2].hasNewAlerts)

\* C5 (amended): of two consecutive completed runs less than 4 hours apart,
\* a key that the first run emitted as a new alert and that is a candidate
\* again in the second is in the second run's allCandidates but not in its
\* alerts, and hasNewAlerts is false when it is the only candidate.
C5_SecondRunSuppressedAfterAlert ==
    Len(history) = 2 =>
        (history[2].now - history[1].now < FourHours =>
            \A k \in Range(history[1].alerts) \cap Range(history[2].candidates) :
                /\ k \notin Range(history[2].alerts)
                /\ Range(history[2].candidates) = {k} => ~history[2].hasNewAlerts)

C5_Witness ==
    /\ Len(history) = 2
    /\ history[2].now - history[1].now = FourHours - 1
    /\ <<"shorts_crowded", "BTC">> \in Range(history[1].alerts)
    /\ history[2].candidates = <<(<<"shorts_crowded", "BTC">>)>>
    /\ history[2].alerts = <<>>
    /\ ~history[2].hasNewAlerts

\* C6: a run never puts two alerts with the same key into newAlerts, and a
\* key is alerted again only when at least 4 hours have passed since the
\* latest run that alerted it.
C6_RepeatAlertsGated ==
    \A p \in Procs : run[p].pc \in {"writing", "saving"} =>
        /\ \A i, j \in 1..Len(run[p].newAlerts) :
              i # j => RecordKey(run[p].newAlerts[i]) # RecordKey(run[p].newAlerts[j])
        /\ \A j \in 1..Len(run[p].newAlerts) :
              RecordKey(run[p].newAlerts[j]) \in DOMAIN emitted =>
                  run[p].now - emitted[RecordKey(run[p].newAlerts[j])] >= FourHours

\* C7: the output's allCandidates holds exactly the entries that fired a rule
\* and passed the RSI gate, alerts is the sub-list of allCandidates that the
\* cooldown does not suppress, hasNewAlerts says whether alerts is non-empty,
\* and that object is what the artifact holds.
C7_OutputShape ==
    [][\A p \in Procs :
        /\ (run[p].pc = "evaluating" /\ run'[p].pc = "writing") =>
              LET out == run'[p].output
                  rec == run[p].lastAlerted
                  kept(a) == ~(RecordKey(a) \in DOMAIN rec
                               /\ run[p].now - rec[RecordKey(a)] <= FourHours)
              IN /\ out.exists
                 /\ \A i \in 1..Len(run[p].coins) :
                       i \in Passed(run[p].coins, run[p].inputs.rsi)
                           <=> Among(run[p].coins[i], out.allCandidates)
                 /\ Len(out.allCandidates) = Cardinality(Passed(run[p].coins, run[p].inputs.rsi))
                 /\ out.alerts = SelectSeq(out.allCandidates, kept)
                 /\ out.hasNewAlerts <=> out.alerts # <<>>
        /\ (run[p].pc = "writing" /\ run'[p].pc = "saving") => outputFile' = run[p].output]_vars

C7_Witness ==
    \E p \in Procs :
        /\ run[p].pc = "saving"
        /\ Len(run[p].coins) = 2
        /\ Len(outputFile.allCandidates) = 2
        /\ Len(outputFile.alerts) = 1
        /\ outputFile.alerts[1] = outputFile.allCandidates[2]
        /\ outputFile.hasNewAlerts

\* C8: a run that finds the funding snapshot absent or unparseable ends
\* FAILED with a non-zero exit code and writes neither the output artifact
\* nor the state file.
C8_FundingFatal ==
    [][\A p \in Procs :
        (run'[p].pc \notin {"idle", "done"}
         /\ run'[p].inputs.funding.status \in {"absent", "unparseable"}) =>
            /\ run'[p].pc = "failed"
            /\ run'[p].exitCode # 0
            /\ outputFile' = outputFile
            /\ stateFile' = stateFile]_vars

C8_Witness ==
    \E p \in Procs :
        /\ run[p].pc = "failed"
        /\ run[p].inputs.funding.status = "unparseable"
        /\ run[p].exitCode = 1
        /\ stateFile.status = "ok"
        /\ outputFile.exists
        /\ Len(history) = 1

\* C9: a run that finds the RSI snapshot absent or unparseable never writes
\* the output artifact or the state file and never ends as a completed run.
C9_RsiFatal ==
    [][\A p \in Procs :
        (run[p].pc \in {"evaluating", "writing", "saving"}
         /\ run[p].inputs.rsi.status \in {"absent", "unparseable"}) =>
            /\ run'[p].pc # "done"
            /\ outputFile' = outputFile
            /\ stateFile' = stateFile]_vars

\* C10: a missing optional snapshot never fails the run and never changes
\* which entries are candidates; the step that would have read it leaves its
\* note empty ('No EMA data' for the EMA step) and the conviction as it was.
C10_OptionalSkipped ==
    \A p \in Procs :
        /\ run[p].pc = "failed" => run[p].inputs.funding.status # "ok"
        /\ run[p].pc \in {"writing", "saving"} =>
              LET in == run[p].inputs
                  out == run[p].output
              IN /\ \A i \in 1..Len(run[p].coins) :
                        i \in Passed(run[p].coins, in.rsi) <=> Among(run[p].coins[i], out.allCandidates)
                 /\ Len(out.allCandidates) = Cardinality(Passed(run[p].coins, in.rsi))
                 /\ \A j \in 1..Len(out.allCandidates) :
                        LET a == out.allCandidates[j]
                        IN /\ in.ema.status # "ok" =>
                                 (a.emaNote = "No EMA data" /\ ~a.emaConfirms
                                  /\ a.convTrace[2] = a.convTrace[1])
                           /\ in.mtf.status # "ok" =>
                                 (a.mtfNote = "" /\ a.convTrace[4] = a.convTrace[3])
                           /\ in.ob.status # "ok" =>
                                 (a.obNote = <<>> /\ a.convTrace[5] = a.convTrace[4])
                           /\ in.vol.status # "ok" => a.volNote = <<>>
                           /\ a.conviction = a.convTrace[5]

C10_Witness ==
    \E p \in Procs :
        /\ run[p].pc = "saving"
        /\ run[p].inputs.ema.status = "unparseable"
        /\ run[p].inputs.mtf.status = "unparseable"
        /\ run[p].inputs.ob.status = "unparseable"
        /\ run[p].inputs.vol.status = "unparseable"
        /\ Len(outputFile.allCandidates) = 2
        /\ outputFile.allCandidates[2].conviction = "MEDIUM"
        /\ outputFile.allCandidates[2].emaNote = "No EMA data"

-----------------------------------------------------------------------------
(* State-file vocabulary of the properties: the keys a state file records   *)
(* and the timestamp it records for a key, read off the file's members.     *)

FileKeys(file) == {file.members[i].key : i \in 1..Len(file.members)}

FileValue(file, k) ==
    file.members[CHOOSE i \in 1..Len(file.members) : file.members[i].key = k].value

Finishes(p) == run[p].pc = "saving" /\ run'[p].pc = "done"

\* C11: every run that reaches DONE has written its output object to the
\* artifact and persists its cooldown mapping to the state file, whether or
\* not an alert fired (no candidate at all, or every candidate suppressed).
C11_DoneAlwaysWrites ==
    [][\A p \in Procs : (run[p].pc # "done" /\ run'[p].pc = "done") =>
        /\ run[p].output.exists
        /\ outputFile' = run[p].output
        /\ stateFile'.status = "ok"
        /\ FileKeys(stateFile') = DOMAIN run[p].lastAlerted
        /\ \A k \in DOMAIN run[p].lastAlerted :
               FileValue(stateFile', k) = run[p].lastAlerted[k]]_vars

C11_Witness ==
    /\ \E p \in Procs : run[p].pc = "done"
    /\ Len(history) = 2
    /\ history[1].candidates = <<>>
    /\ history[2].candidates # <<>>
    /\ history[2].alerts = <<>>
    /\ outputFile.exists /\ ~outputFile.hasNewAlerts
    /\ Len(outputFile.allCandidates) > 0
    /\ stateFile.status = "ok"
    /\ FileKeys(stateFile) # {}

\* C12: the cooldown mapping a run loads has the same key set and the same
\* timestamps as the mapping the previous completed run saved.
C12_StateRoundTrip ==
    \A p \in Procs : (run[p].pc = "evaluating" /\ Len(history) > 0) =>
        LET saved == history[Len(history)].saved
        IN /\ DOMAIN run[p].lastAlerted = DOMAIN saved
           /\ \A k \in DOMAIN saved : run[p].lastAlerted[k] = saved[k]

C12_Witness ==
    \E p \in Procs :
        /\ run[p].pc = "evaluating"
        /\ Len(history) = 2
        /\ Cardinality(DOMAIN history[2].saved) = 2
        /\ \E k1, k2 \in DOMAIN history[2].saved : history[2].saved[k1] < history[2].saved[k2]
        /\ run[p].lastAlerted = history[2].saved

\* C13: with the state file absent the run does not fail in loadState, the
\* loaded mapping is empty, and every entry that fires a rule and passes the
\* RSI gate is emitted as a new alert.
C13_AbsentStateAllNew ==
    \A p \in Procs : stateFile.status = "absent" =>
        /\ run[p].pc = "failed" => run[p].inputs.funding.status # "ok"
        /\ run[p].pc = "evaluating" => DOMAIN run[p].lastAlerted = {}
        /\ run[p].pc \in {"writing", "saving"} =>
              /\ \A i \in Passed(run[p].coins, run[p].inputs.rsi) :
                     Among(run[p].coins[i], run[p].output.alerts)
              /\ Len(run[p].output.alerts) = Cardinality(Passed(run[p].coins, run[p].inputs.rsi))
              /\ run[p].output.alerts = run[p].output.allCandidates

C13_Witness ==
    \E p \in Procs :
        /\ stateFile.status = "absent"
        /\ run[p].pc = "saving"
        /\ Len(run[p].output.alerts) = 2
        /\ run[p].output.alerts[1].coin # run[p].output.alerts[2].coin
        /\ run[p].output.hasNewAlerts

\* C14: only a run that completes changes the state file; it adds exactly the
\* keys of its new alerts, sets the timestamp of each of them to its `now`,
\* leaves every other key as it was, deletes none and lowers no timestamp.
C14_RecordLifecycle ==
    [][/\ stateFile' # stateFile => \E p \in Procs : Finishes(p)
       /\ \A p \in Procs : Finishes(p) =>
             LET alerted == {RecordKey(run[p].newAlerts[j]) : j \in 1..Len(run[p].newAlerts)}
             IN /\ FileKeys(stateFile') = FileKeys(stateFile) \cup alerted
                /\ \A k \in alerted : FileValue(stateFile', k) = run[p].now
                /\ \A k \in FileKeys(stateFile) \ alerted :
                       FileValue(stateFile', k) = FileValue(stateFile, k)
                /\ \A k \in FileKeys(stateFile) :
                       FileValue(stateFile', k) >= FileValue(stateFile, k)]_vars

C14_Witness ==
    /\ \E p \in Procs : run[p].pc = "done"
    /\ Len(history) = 2
    /\ \E k \in Range(history[1].alerts) \cap Range(history[2].alerts) :
           FileValue(stateFile, k) = history[2].now
    /\ \E k \in FileKeys(stateFile) \ Range(history[2].alerts) :
           FileValue(stateFile, k) = history[1].now
    /\ history[1].now < history[2].now

-----------------------------------------------------------------------------
(* Conviction vocabulary of the properties *)

Rank(conviction) ==
    CASE conviction = "MEDIUM" -> 1
      [] conviction = "MEDIUM-HIGH" -> 2
      [] conviction = "HIGH" -> 3
      [] conviction = "VERY HIGH" -> 4
      [] OTHER -> 0

Evaluating == {"writing", "saving"}

HasEmaData(in, c) == in.ema.status = "ok" /\ c \in DOMAIN in.ema.coins /\ ~in.ema.coins[c].error

HasMtfData(in, c) == in.mtf.status = "ok" /\ c \in DOMAIN in.mtf.results

Drop(snap, field, c) == [snap EXCEPT ![field] = Restrict(@, DOMAIN @ \ {c})]

\* C15: in one evaluation the conviction starts at MEDIUM, takes only the
\* four values MEDIUM < MEDIUM-HIGH < HIGH < VERY HIGH, and no step (EMA,
\* triple confluence, multi-timeframe, order book, volume) leaves it lower
\* than it found it; the alert carries the value the last step left.
C15_ConvictionNeverLowered ==
    \A p \in Procs : run[p].pc \in Evaluating =>
        \A j \in 1..Len(run[p].alerts) :
            LET t == run[p].alerts[j].convTrace
            IN /\ t[1] = "MEDIUM"
               /\ \A i \in 1..Len(t) : Rank(t[i]) >= 1
               /\ \A i \in 1..(Len(t) - 1) : Rank(t[i + 1]) >= Rank(t[i])
               /\ run[p].alerts[j].conviction = t[Len(t)]

C15_Witness ==
    \E p \in Procs :
        /\ run[p].pc \in Evaluating
        /\ Len(run[p].alerts) = 1
        /\ run[p].alerts[1].convTrace = <<"MEDIUM", "MEDIUM-HIGH", "HIGH", "VERY HIGH", "VERY HIGH">>
        /\ run[p].alerts[1].volNote # <<>>

\* C16: the final conviction of a candidate evaluated with an EMA record is
\* never lower than that of the same candidate evaluated under the same
\* snapshots without the EMA record; likewise for the multi-timeframe record
\* and for the order-book record.
C16_MonotoneInCorroboration ==
    \A p \in Procs : (run[p].pc \in Evaluating /\ Len(run[p].coins) = 1 /\ Len(run[p].alerts) = 1) =>
        LET e == run[p].coins[1]
            with == run[p].alerts[1]
        IN \A field \in {"emaData", "mtfData", "obData"} :
               e.coin \in DOMAIN run[p].snap[field] =>
                   Rank(with.conviction)
                       >= Rank(BuildAlert(e, Drop(run[p].snap, field, e.coin)).conviction)

C16_Witness ==
    \E p \in Procs :
        /\ run[p].pc \in Evaluating /\ Len(run[p].coins) = 1 /\ Len(run[p].alerts) = 1
        /\ \A field \in {"emaData", "mtfData", "obData"} : run[p].coins[1].coin \in DOMAIN run[p].snap[field]
        /\ run[p].alerts[1].conviction = "VERY HIGH"
        /\ BuildAlert(run[p].coins[1], Drop(run[p].snap, "emaData", run[p].coins[1].coin)).conviction = "MEDIUM"
        /\ BuildAlert(run[p].coins[1], Drop(run[p].snap, "mtfData", run[p].coins[1].coin)).conviction = "HIGH"
        /\ run[p].alerts[1].obNote = <<"conflicts">>

\* C17: every alert has tripleConfluence true iff emaConfirms is true, and an
\* alert with tripleConfluence true has conviction HIGH or VERY HIGH.
C17_TripleIffEmaConfirms ==
    \A p \in Procs : run[p].pc \in Evaluating =>
        \A j \in 1..Len(run[p].output.allCandidates) :
            LET a == run[p].output.allCandidates[j]
            IN /\ a.tripleConfluence <=> a.emaConfirms
               /\ a.tripleConfluence => a.conviction \in {"HIGH", "VERY HIGH"}

C17_Witness ==
    \E p \in Procs :
        /\ run[p].pc \in Evaluating
        /\ Len(run[p].output.allCandidates) = 1
        /\ run[p].output.allCandidates[1].tripleConfluence
        /\ run[p].output.allCandidates[1].emaNote = "bearish_stack"
        /\ run[p].output.allCandidates[1].conviction = "HIGH"

\* C18: for a LONG alert with EMA data: with NEAR_EMA200 or CROSS_ABOVE_200
\* among the signals emaConfirms is true and the conviction is at least HIGH;
\* otherwise with priceVsEMA200 < -30 emaConfirms is false and the conviction
\* becomes MEDIUM-HIGH; otherwise emaConfirms is false, the conviction stays
\* MEDIUM and only the raw trend is noted.
C18_EmaLong ==
    \A p \in Procs : run[p].pc \in Evaluating =>
        \A j \in 1..Len(run[p].alerts) :
            LET a == run[p].alerts[j]
            IN (a.setupDirection = "LONG" /\ HasEmaData(run[p].inputs, a.coin)) =>
                LET r == run[p].inputs.ema.coins[a.coin]
                IN IF r.signals \cap {"NEAR_EMA200", "CROSS_ABOVE_200"} # {}
                   THEN /\ a.emaConfirms
                        /\ Rank(a.convTrace[2]) >= 3 /\ Rank(a.conviction) >= 3
                   ELSE IF r.priceVsEMA200 < 0 - 3000
                   THEN /\ ~a.emaConfirms
                        /\ a.convTrace[2] = "MEDIUM-HIGH" /\ a.conviction = "MEDIUM-HIGH"
                   ELSE /\ ~a.emaConfirms
                        /\ a.convTrace[2] = "MEDIUM" /\ a.conviction = "MEDIUM"
                        /\ a.emaNote = "raw_trend"

C18_Witness ==
    \E p \in Procs :
        /\ run[p].pc \in Evaluating
        /\ Len(run[p].alerts) = 1
        /\ run[p].alerts[1].setupDirection = "LONG"
        /\ HasEmaData(run[p].inputs, run[p].alerts[1].coin)
        /\ run[p].inputs.ema.coins[run[p].alerts[1].coin].priceVsEMA200 = 0 - 3001
        /\ run[p].inputs.mtf.status = "ok" /\ run[p].inputs.ob.status = "ok"
        /\ run[p].alerts[1].obNote # <<>>
        /\ ~run[p].alerts[1].emaConfirms
        /\ run[p].alerts[1].conviction = "MEDIUM-HIGH"

\* C19: for a SHORT alert with EMA data: with NEAR_EMA200 or CROSS_BELOW_200
\* among the signals, or with the EMA alignment BEARISH, emaConfirms is true
\* and the alert's conviction is at least HIGH; otherwise emaConfirms is
\* false and the EMA step leaves the conviction as it found it.
C19_EmaShort ==
    \A p \in Procs : run[p].pc \in Evaluating =>
        \A j \in 1..Len(run[p].alerts) :
            LET a == run[p].alerts[j]
            IN (a.setupDirection = "SHORT" /\ HasEmaData(run[p].inputs, a.coin)) =>
                LET r == run[p].inputs.ema.coins[a.coin]
                IN IF \/ r.signals \cap {"NEAR_EMA200", "CROSS_BELOW_200"} # {}
                      \/ r.alignment = "BEARISH"
                   THEN a.emaConfirms /\ Rank(a.conviction) >= 3
                   ELSE ~a.emaConfirms /\ a.convTrace[2] = a.convTrace[1]

C19_Witness ==
    \E p \in Procs :
        /\ run[p].pc \in Evaluating
        /\ Len(run[p].alerts) = 1
        /\ run[p].alerts[1].setupDirection = "SHORT"
        /\ HasEmaData(run[p].inputs, run[p].alerts[1].coin)
        /\ run[p].inputs.ema.coins[run[p].alerts[1].coin].alignment = "BEARISH"
        /\ run[p].inputs.ema.coins[run[p].alerts[1].coin].signals = {"BEARISH_STACK"}
        /\ run[p].inputs.mtf.status # "ok" /\ run[p].inputs.ob.status # "ok"
        /\ run[p].alerts[1].emaConfirms
        /\ run[p].alerts[1].convTrace[2] = "MEDIUM-HIGH"
        /\ run[p].alerts[1].conviction = "HIGH"

\* C20: with a multi-timeframe record, that step raises the conviction to
\* VERY HIGH iff tripleConfluence holds and the alignment opposes the
\* expected reversal (LONG under BEARISH_ALIGNED, SHORT under
\* BULLISH_ALIGNED); in every other case it attaches a note and leaves the
\* conviction unchanged.
C20_MtfStep ==
    \A p \in Procs : run[p].pc \in Evaluating =>
        \A j \in 1..Len(run[p].alerts) :
            LET a == run[p].alerts[j]
            IN HasMtfData(run[p].inputs, a.coin) =>
                LET r == run[p].inputs.mtf.results[a.coin]
                    opposes == \/ a.setupDirection = "LONG" /\ r.alignment = "BEARISH_ALIGNED"
                               \/ a.setupDirection = "SHORT" /\ r.alignment = "BULLISH_ALIGNED"
                    raised == a.convTrace[4] = "VERY HIGH" /\ a.convTrace[3] # "VERY HIGH"
                IN /\ raised <=> (a.tripleConfluence /\ opposes)
                   /\ ~(a.tripleConfluence /\ opposes) =>
                         (a.convTrace[4] = a.convTrace[3] /\ a.mtfNote # "")
                   /\ (~opposes /\ r.rsiDivergence # "") => a.mtfNote = "rsi_divergence"

C20_Witness ==
    \E p \in Procs :
        /\ run[p].pc \in Evaluating
        /\ Len(run[p].alerts) = 1
        /\ HasMtfData(run[p].inputs, run[p].alerts[1].coin)
        /\ run[p].inputs.mtf.results[run[p].alerts[1].coin].alignment = "BEARISH_ALIGNED"
        /\ run[p].inputs.mtf.results[run[p].alerts[1].coin].rsiDivergence # ""
        /\ run[p].alerts[1].setupDirection = "LONG"
        /\ run[p].alerts[1].tripleConfluence
        /\ run[p].alerts[1].convTrace[3] = "HIGH"
        /\ run[p].alerts[1].convTrace[4] = "VERY HIGH"
        /\ run[p].alerts[1].mtfNote = "all_tfs_bearish"

HasObData(in, c) == in.ob.status = "ok" /\ c \in DOMAIN in.ob.results /\ ~in.ob.results[c].error

\* C21: with an order-book record, pressure that agrees with the direction
\* (buy_pressure for LONG, sell_pressure for SHORT) turns a conviction of
\* exactly HIGH into VERY HIGH; agreement at any other conviction,
\* disagreement and neutral pressure leave the conviction unchanged,
\* disagreement adds a conflict note, and walls are noted in every case.
C21_ObStep ==
    \A p \in Procs : run[p].pc \in Evaluating =>
        \A j \in 1..Len(run[p].alerts) :
            LET a == run[p].alerts[j]
            IN HasObData(run[p].inputs, a.coin) =>
                LET r == run[p].inputs.ob.results[a.coin]
                    agrees == \/ a.setupDirection = "LONG" /\ r.pressure = "buy_pressure"
                              \/ a.setupDirection = "SHORT" /\ r.pressure = "sell_pressure"
                    walls == r.bidWalls # JsNull \/ r.askWalls # JsNull
                IN /\ (agrees /\ a.convTrace[4] = "HIGH") => a.convTrace[5] = "VERY HIGH"
                   /\ ~(agrees /\ a.convTrace[4] = "HIGH") => a.convTrace[5] = a.convTrace[4]
                   /\ (~agrees /\ r.pressure # "neutral") => a.obNote[1] = "conflicts"
                   /\ walls <=> (a.obNote # <<>> /\ a.obNote[Len(a.obNote)] = "walls")
                   /\ a.conviction = a.convTrace[5]

C21_Witness ==
    \E p \in Procs :
        /\ run[p].pc \in Evaluating
        /\ Len(run[p].alerts) = 1
        /\ HasObData(run[p].inputs, run[p].alerts[1].coin)
        /\ run[p].inputs.ob.results[run[p].alerts[1].coin].pressure = "buy_pressure"
        /\ run[p].alerts[1].setupDirection = "LONG"
        /\ run[p].alerts[1].convTrace[4] = "HIGH"
        /\ run[p].alerts[1].conviction = "VERY HIGH"
        /\ run[p].alerts[1].obNote = <<"supports_long", "walls">>

\* C22: an alert evaluated with a volume record (spike, dry-up, high
\* OI-to-volume ratio or none of them) equals, in every field other than
\* volNote, the alert of the same entry evaluated without the volume record.
C22_VolumeOnlyNotes ==
    \A p \in Procs : (run[p].pc \in Evaluating /\ Len(run[p].coins) = 1 /\ Len(run[p].alerts) = 1) =>
        LET e == run[p].coins[1]
            with == run[p].alerts[1]
            without == BuildAlert(e, Drop(run[p].snap, "volData", e.coin))
        IN /\ without.volNote = <<>>
           /\ [with EXCEPT !.volNote = <<>>] = without
           /\ with.conviction = without.conviction
           /\ with.emaConfirms = without.emaConfirms
           /\ with.tripleConfluence = without.tripleConfluence

C22_Witness ==
    \E p \in Procs :
        /\ run[p].pc \in Evaluating /\ Len(run[p].coins) = 1 /\ Len(run[p].alerts) = 1
        /\ run[p].alerts[1].volNote = <<"spike", "high_oi_vol">>
        /\ run[p].alerts[1].conviction = "HIGH"
        /\ BuildAlert(run[p].coins[1], Drop(run[p].snap, "volData", run[p].coins[1].coin)).conviction = "HIGH"

-----------------------------------------------------------------------------
(* Run-outcome vocabulary of the properties *)

Unreadable == {"absent", "unparseable"}

Malformed(e) == e.json # "object" \/ e.coin = "" \/ e.sentiment = ""

WellFormed(coins) == SelectSeq(coins, LAMBDA e : ~Malformed(e))

\* C24: a run ends DONE with exit code 0 or FAILED with a non-zero exit code;
\* a run whose funding snapshot is present and parseable does not end FAILED,
\* and a run ends FAILED only when the funding or the RSI snapshot is
\* missing or unparseable.
C24_TerminalStates ==
    \A p \in Procs :
        /\ run[p].pc = "done" => run[p].exitCode = 0
        /\ run[p].pc = "failed" =>
              /\ run[p].exitCode # 0
              /\ run[p].inputs.funding.status # "ok"
              /\ \/ run[p].inputs.funding.status \in Unreadable
                 \/ run[p].inputs.rsi.status \in Unreadable

\* C25: a run whose funding snapshot parses but holds a malformed record
\* (a null entry, an entry missing its fields) does not fail: it goes on to
\* write, and its candidates are those of the snapshot without that record.
C25_MalformedSkipped ==
    \A p \in Procs :
        (/\ run[p].pc \notin {"idle", "done"}
         /\ run[p].inputs.funding.status = "ok"
         /\ \E i \in 1..Len(run[p].inputs.funding.coins) : Malformed(run[p].inputs.funding.coins[i]))
        => /\ run[p].pc \in {"evaluating", "writing", "saving"}
           /\ run[p].pc \in Evaluating =>
                 Len(run[p].output.allCandidates)
                     = Cardinality(Passed(WellFormed(run[p].coins), run[p].inputs.rsi))

\* C27: a run that aborts leaves the output artifact and the state file as
\* they were; the artifact changes only in the step after the evaluation of
\* every entry, to the object that evaluation built, and the state file
\* changes only in the step after that.
C27_NoPartialWrites ==
    [][/\ \A p \in Procs : (run[p].pc # "failed" /\ run'[p].pc = "failed") =>
             (outputFile' = outputFile /\ stateFile' = stateFile)
       /\ outputFile' # outputFile =>
             \E p \in Procs : /\ run[p].pc = "writing" /\ run'[p].pc = "saving"
                              /\ outputFile' = run[p].output
       /\ stateFile' # stateFile => \E p \in Procs : Finishes(p)]_vars

C27_Witness ==
    \E p \in Procs :
        /\ run[p].pc = "failed"
        /\ run[p].inputs.funding.status = "ok"
        /\ Len(run[p].coins) = 2
        /\ ~Malformed(run[p].coins[1])
        /\ Len(history) = 1
        /\ outputFile.exists /\ Len(outputFile.alerts) = 1
        /\ stateFile.status = "ok" /\ FileKeys(stateFile) # {}

\* C26: with invocations that overlap, the state file holds exactly the
\* mapping of the invocation that saved last: nothing of the file it
\* replaced is merged in, so a key that only the earlier writer recorded is
\* not in the file.
C26_LastWriterWins ==
    Len(history) > 0 =>
        LET last == history[Len(history)].saved
        IN /\ stateFile.status = "ok"
           /\ FileKeys(stateFile) = DOMAIN last
           /\ \A k \in DOMAIN last : FileValue(stateFile, k) = last[k]
           /\ Len(history) = 2 =>
                 \A k \in DOMAIN history[1].saved \ DOMAIN last : k \notin FileKeys(stateFile)

C26_Witness ==
    /\ \A p \in DOMAIN run : run[p].pc = "done"
    /\ Len(history) = 2
    /\ history[1].now < history[2].now
    /\ history[2].alerts # <<>>
    /\ \E k \in Range(history[1].alerts) :
           /\ k \in DOMAIN history[1].saved
           /\ k \notin FileKeys(stateFile)

(* The keys of the alerts a run emitted, built from the alert's fields *)
SentimentKeys(alerts) == {<<alerts[i].sentiment, alerts[i].coin>> : i \in 1..Len(alerts)}

(* While a run is between its filter and its save, the state file still    *)
(* holds the mapping the run loaded.  Only the keys of the emitted alerts   *)
(* change, every other record is kept, and a candidate is held back by the  *)
(* record of its own key alone.                                             *)
KeysIndependent ==
    \A p \in Procs : run[p].pc \in {"writing", "saving"} =>
        LET r == run[p]
            old == IF stateFile.status = "ok"
                   THEN [k \in FileKeys(stateFile) |-> FileValue(stateFile, k)]
                   ELSE NoMap
            new == SentimentKeys(r.newAlerts)
        IN /\ DOMAIN r.lastAlerted = DOMAIN old \cup new
           /\ \A k \in new : r.lastAlerted[k] = r.now
           /\ \A k \in DOMAIN old \ new : r.lastAlerted[k] = old[k]
           /\ \A i \in 1..Len(r.alerts) :
                 LET k == <<r.alerts[i].sentiment, r.alerts[i].coin>>
                 IN (r.alerts[i] \in Range(r.newAlerts)) <=>
                        ~(k \in DOMAIN old /\ r.now - old[k] <= COOLDOWN)

StoredTimes == \A k \in FileKeys(stateFile) : FileValue(stateFile, k) \in StartClock..clock

\* C28 (as claimed): the persisted state maps "<direction>_<instrument>",
\* direction being LONG or SHORT, to the epoch-millis of the last alert, and
\* the keys are independent.
C28_KeyedByDirection ==
    /\ FileKeys(stateFile) \subseteq {"LONG", "SHORT"} \X Coins
    /\ StoredTimes
    /\ KeysIndependent

\* C28 (amended): the persisted state maps "<sentiment>_<instrument>", the
\* sentiment being shorts_crowded (a LONG setup) or longs_crowded (a SHORT
\* setup), to the epoch-millis of the last alert; the keys are independent:
\* emitting an alert changes only its own key's timestamp and neither
\* suppresses nor changes the record of the same instrument on the other
\* side or of any other instrument.
C28_KeyedBySentiment ==
    /\ FileKeys(stateFile) \subseteq {"shorts_crowded", "longs_crowded"} \X Coins
    /\ StoredTimes
    /\ KeysIndependent

C28_Witness ==
    /\ run[1].pc = "saving"
    /\ <<"shorts_crowded", "BTC">> \in FileKeys(stateFile)
    /\ run[1].now - FileValue(stateFile, <<"shorts_crowded", "BTC">>) < COOLDOWN
    /\ <<"longs_crowded", "BTC">> \notin FileKeys(stateFile)
    /\ <<"longs_crowded", "BTC">> \in SentimentKeys(run[1].newAlerts)
    /\ run[1].lastAlerted[<<"shorts_crowded", "BTC">>] = FileValue(stateFile, <<"shorts_crowded", "BTC">>)

\* C29: the sentiment is a total function of avgRate with fixed thresholds:
\* longs_crowded iff avgRate > 0.006, bullish iff 0.001 < avgRate <= 0.006,
\* shorts_crowded iff avgRate < -0.006, bearish iff -0.006 <= avgRate < -0.001,
\* neutral otherwise; one label comes out, and a second call with the same
\* avgRate gives the same label.
C29_SentimentThresholds ==
    calc.calls >= 1 =>
        LET a == calc.avgRate
            s == calc.sentiment
        IN /\ s \in {"longs_crowded", "bullish", "shorts_crowded", "bearish", "neutral"}
           /\ (s = "longs_crowded") <=> (a > 6000)
           /\ (s = "bullish") <=> (1000 < a /\ a <= 6000)
           /\ (s = "shorts_crowded") <=> (a < 0 - 6000)
           /\ (s = "bearish") <=> (0 - 6000 <= a /\ a < 0 - 1000)
           /\ (s = "neutral") <=> (0 - 1000 <= a /\ a <= 1000)
           /\ calc.calls = 2 => calc.before = s

C29_Witness ==
    /\ calc.calls = 2
    /\ calc.avgRate = 6000
    /\ calc.sentiment = "bullish"
    /\ calc.before = "bullish"

IsNull(v) == v.den = 0

SameValue(a, b) == ~IsNull(a) /\ ~IsNull(b) /\ a.num * b.den = b.num * a.den

Whole(n) == [num |-> n, den |-> 1]

Constant(prices) == \A i, j \in 1..Len(prices) : prices[i] = prices[j]

AllButLast(prices) == SubSeq(prices, 1, Len(prices) - 1)

(* The moving average as the specification states it: the mean of the first *)
(* `period` samples, then ema' = price*k + ema*(1-k) with k = 2/(period+1)  *)
(* for each further sample.                                                 *)
RECURSIVE RefEma(_, _)
RefEma(prices, period) ==
    IF Len(prices) = period THEN [num |-> Sum(prices), den |-> period]
    ELSE LET e == RefEma(AllButLast(prices), period)
         IN [num |-> 2 * prices[Len(prices)] * e.den + (period - 1) * e.num,
             den |-> (period + 1) * e.den]

SeedAndFold(prices, period, value) ==
    /\ SameValue(value, RefEma(prices, period))
    /\ Len(prices) = period => value.num * period = Sum(prices) * value.den
    /\ Constant(prices) => SameValue(value, Whole(prices[1]))

\* C30 (as claimed): every moving-average routine returns null iff the series
\* is shorter than period; otherwise the value is the mean of the first
\* period samples folded with ema' = price*k + ema*(1-k), k = 2/(period+1):
\* the mean itself when length = period, the constant for a constant series.
C30_NullIffShorterThanPeriod ==
    calc.returned =>
        /\ IsNull(calc.current) <=> Len(calc.prices) < calc.period
        /\ ~IsNull(calc.current) =>
               SeedAndFold(calc.prices, calc.period, calc.current)

\* C30 (amended): calculateEMA of ema-checker.js and calcEMA of
\* multi-tf-analyzer.js return null iff the series is shorter than period;
\* calculateEMA of ema-breakout-scanner.js returns null for current and prev
\* iff the series is shorter than period + 5.  A value that is returned is
\* the mean of the first period samples folded over the remaining samples
\* with ema' = price*k + ema*(1-k), k = 2/(period+1), in exact arithmetic:
\* the mean when length = period, the constant for a constant series; the
\* scanner's prev is the value of the series without its last sample.
C30_NullIffTooShort ==
    calc.returned =>
        LET least == IF calc.fn = "ema-breakout-scanner.calculateEMA"
                     THEN calc.period + 5 ELSE calc.period
        IN /\ IsNull(calc.current) <=> Len(calc.prices) < least
           /\ ~IsNull(calc.current) =>
                  SeedAndFold(calc.prices, calc.period, calc.current)
           /\ IF calc.fn = "ema-breakout-scanner.calculateEMA"
              THEN /\ IsNull(calc.prev) <=> IsNull(calc.current)
                   /\ ~IsNull(calc.prev) =>
                          SameValue(calc.prev, RefEma(AllButLast(calc.prices), calc.period))
              ELSE IsNull(calc.prev)

C30_Witness ==
    /\ calc.returned
    /\ calc.fn = "ema-breakout-scanner.calculateEMA"
    /\ calc.period = 2
    /\ Len(calc.prices) = 6
    /\ IsNull(calc.current)

Falls(closes) == {i \in 1..(Len(closes) - 1) : closes[i + 1] < closes[i]}

\* C31: an RSI routine returns null iff the series is shorter than period + 1;
\* it returns exactly 100 when the series has no fall at all (a series with
\* no change included), and whatever it returns lies between 0 and 100.
C31_RsiRange ==
    calc.returned =>
        /\ IsNull(calc.rsi) <=> Len(calc.closes) < calc.period + 1
        /\ ~IsNull(calc.rsi) =>
               /\ Falls(calc.closes) = {} => (calc.rsi.num = 100 * calc.rsi.den)
               /\ Constant(calc.closes) => (calc.rsi.num = 100 * calc.rsi.den)
               /\ calc.rsi.den > 0
               /\ 0 <= calc.rsi.num
               /\ calc.rsi.num <= 100 * calc.rsi.den

C31_Witness ==
    /\ calc.returned
    /\ calc.fn = "rsi-checker.calculateRSI"
    /\ calc.period = 2
    /\ calc.closes = <<2, 2, 2>>
    /\ calc.rsi = Hundred

(* Wilder's averages as the specification states them, both over the        *)
(* denominator period^(n - period) for a series of n closes: the sums over  *)
(* the first `period` changes, then avg' = (avg*(period-1) + value)/period  *)
(* for every later change.                                                  *)
RECURSIVE Power(_, _)
Power(b, e) == IF e = 0 THEN 1 ELSE b * Power(b, e - 1)

RECURSIVE WilderSums(_, _)
WilderSums(closes, period) ==
    LET n == Len(closes)
    IN IF n = period + 1
       THEN [gain |-> Sum([i \in 1..period |->
                                IF closes[i + 1] > closes[i] THEN closes[i + 1] - closes[i] ELSE 0]),
             loss |-> Sum([i \in 1..period |->
                                IF closes[i + 1] < closes[i] THEN closes[i] - closes[i + 1] ELSE 0])]
       ELSE LET before == WilderSums(AllButLast(closes), period)
                scale == Power(period, n - period - 1)
                last == closes[n] - closes[n - 1]
            IN [gain |-> before.gain * (period - 1) + (IF last > 0 THEN last ELSE 0) * scale,
                loss |-> before.loss * (period - 1) + (IF last < 0 THEN 0 - last ELSE 0) * scale]

WilderRsi(closes, period) ==
    LET w == WilderSums(closes, period)
    IN IF w.loss = 0 THEN [num |-> 100, den |-> 1]
       ELSE [num |-> 100 * w.gain, den |-> w.gain + w.loss]

(* Equal up to the rounding to two decimals *)
WithinRounding(a, b) ==
    LET diff == a.num * b.den - b.num * a.den
    IN 200 * (IF diff < 0 THEN 0 - diff ELSE diff) <= a.den * b.den

\* C32 (as claimed): every RSI routine of the repository returns, for every
\* series of at least period + 1 closes, the RSI of Wilder's smoothing: first
\* averages over the first period changes, every later change folded in
\* with avg' = (avg*(period-1) + value)/period.
C32_EveryRoutineWilder ==
    (calc.returned /\ Len(calc.closes) >= calc.period + 1) =>
        /\ ~IsNull(calc.rsi)
        /\ WithinRounding(calc.rsi, WilderRsi(calc.closes, calc.period))

\* C33: in every alert a conviction of VERY HIGH comes with tripleConfluence,
\* hence with emaConfirms; an alert without EMA confirmation ends at MEDIUM
\* or MEDIUM-HIGH whatever the multi-timeframe and order-book records say,
\* and an alert of a coin without EMA data ends at MEDIUM.
C33_VeryHighNeedsTriple ==
    \A p \in Procs : run[p].pc \in Evaluating =>
        \A j \in 1..Len(run[p].alerts) :
            LET a == run[p].alerts[j]
            IN /\ a.conviction = "VERY HIGH" => (a.tripleConfluence /\ a.emaConfirms)
               /\ ~a.emaConfirms => a.conviction \in {"MEDIUM", "MEDIUM-HIGH"}
               /\ ~HasEmaData(run[p].inputs, a.coin) => a.conviction = "MEDIUM"

C33_Witness ==
    \E p \in Procs :
        /\ run[p].pc \in Evaluating
        /\ Len(run[p].alerts) = 1
        /\ HasEmaData(run[p].inputs, run[p].alerts[1].coin)
        /\ ~run[p].alerts[1].emaConfirms
        /\ run[p].alerts[1].conviction = "MEDIUM-HIGH"
        /\ HasMtfData(run[p].inputs, run[p].alerts[1].coin)
        /\ run[p].inputs.mtf.results[run[p].alerts[1].coin].alignment = "BEARISH_ALIGNED"
        /\ HasObData(run[p].inputs, run[p].alerts[1].coin)
        /\ run[p].inputs.ob.results[run[p].alerts[1].coin].pressure = "buy_pressure"
        /\ run[p].alerts[1].setupDirection = "LONG"

DivergenceFires(e) ==
    /\ e.maxRate - e.minRate > 2000
    /\ e.oiUsd > 1000000
    /\ (e.avgRate >= 6000 \/ e.avgRate <= 0 - 6000)

\* C34: every alert has sentiment shorts_crowded with direction LONG or
\* sentiment longs_crowded with direction SHORT; a funding entry whose
\* sentiment is bullish, bearish or neutral never becomes a candidate, also
\* when the exchange-divergence rule fires for it (avgRate exactly +/-0.006)
\* and whatever its RSI is.
C34_AlertsAreCrowded ==
    \A p \in Procs : run[p].pc \in Evaluating =>
        /\ \A j \in 1..Len(run[p].alerts) :
               LET a == run[p].alerts[j]
               IN \/ a.sentiment = "shorts_crowded" /\ a.setupDirection = "LONG"
                  \/ a.sentiment = "longs_crowded" /\ a.setupDirection = "SHORT"
        /\ \A i \in 1..Len(run[p].coins) :
               run[p].coins[i].sentiment \in {"bullish", "bearish", "neutral"} =>
                   /\ \A j \in 1..Len(run[p].alerts) : run[p].alerts[j].coin # run[p].coins[i].coin
                   /\ \A j \in 1..Len(run[p].output.allCandidates) :
                          run[p].output.allCandidates[j].coin # run[p].coins[i].coin

C34_Witness ==
    \E p \in Procs :
        /\ run[p].pc \in Evaluating
        /\ Len(run[p].coins) = 1
        /\ run[p].coins[1].avgRate = 6000
        /\ run[p].coins[1].sentiment = "bullish"
        /\ DivergenceFires(run[p].coins[1])
        /\ HasRsiValue(run[p].inputs.rsi, "BTC")
        /\ run[p].inputs.rsi.coins["BTC"] = 7200
        /\ run[p].alerts = <<>>
        /\ run[p].output.allCandidates = <<>>

\* C37 (as claimed): in every alert the rsi field is a number, at most 35
\* for a LONG alert and at least 65 for a SHORT alert, also when the RSI
\* that passed the gate is exactly 0, and rsiNote is not empty.
C37_AlertCarriesRsi ==
    \A p \in Procs : run[p].pc \in Evaluating =>
        \A j \in 1..Len(run[p].output.allCandidates) :
            LET a == run[p].output.allCandidates[j]
            IN /\ a.rsi # JsNull
               /\ a.rsi = run[p].inputs.rsi.coins[a.coin]
               /\ a.setupDirection = "LONG" => a.rsi <= 3500
               /\ a.setupDirection = "SHORT" => a.rsi >= 6500
               /\ a.rsiNote # ""

C36_UnparseableStateIsEmpty ==
    \A p \in Procs : (run[p].pc \in {"evaluating", "writing", "saving"}
                      /\ stateFile.status = "unparseable") =>
        /\ run[p].pc = "evaluating" => run[p].lastAlerted = NoMap
        /\ run[p].pc \in Evaluating =>
               /\ run[p].newAlerts = run[p].alerts
               /\ run[p].output.alerts = run[p].output.allCandidates
               /\ DOMAIN run[p].lastAlerted = SentimentKeys(run[p].alerts)
               /\ \A k \in DOMAIN run[p].lastAlerted : run[p].lastAlerted[k] = run[p].now

C36_Witness ==
    \E p \in Procs :
        /\ run[p].pc = "saving"
        /\ stateFile.status = "unparseable"
        /\ <<"shorts_crowded", "BTC">> \in FileKeys(stateFile)
        /\ run[p].now - FileValue(stateFile, <<"shorts_crowded", "BTC">>) < COOLDOWN
        /\ <<"shorts_crowded", "BTC">> \in SentimentKeys(run[p].newAlerts)
        /\ <<"longs_crowded", "ETH">> \in FileKeys(stateFile)
        /\ <<"longs_crowded", "ETH">> \notin DOMAIN run[p].lastAlerted

(* The keys of the signals of a list of results or alerts, one per signal *)
RECURSIVE SignalKeys(_)
SignalKeys(list) ==
    IF list = <<>> THEN <<>>
    ELSE [j \in 1..Len(Head(list).signals) |->
             <<Head(list).coin, Head(list).signals[j].type, Head(list).signals[j].timeframe>>]
         \o SignalKeys(Tail(list))

\* C38: in the EMA breakout scanner the cooldown is 4 hours per (coin, signal
\* type, timeframe).  Over sequential scans a detected signal is in the
\* alerts of a scan iff more than 4 hours have passed since its key was
\* last alerted (or it never was); its record is then set to now; a key
\* that occurs twice in one scan is alerted once; allSignals holds every
\* detected signal, suppressed or not.
C38_ScannerCooldown ==
    /\ scanner.stateFile.status = "ok" =>
           \A k \in FileKeys(scanner.stateFile) :
               k \in DOMAIN scanner.alertedAt
               /\ FileValue(scanner.stateFile, k) = scanner.alertedAt[k]
    /\ scanner.pc \in {"writing", "saving"} =>
           LET alerted == SignalKeys(scanner.newAlerts)
               detected == SignalKeys(scanner.results)
               recent(k) == k \in DOMAIN scanner.alertedAt
                            /\ scanner.now - scanner.alertedAt[k] <= FourHours
           IN /\ \A i \in 1..Len(alerted) : ~recent(alerted[i])
              /\ \A i \in 1..Len(alerted) : scanner.lastAlerted[alerted[i]] = scanner.now
              /\ \A i, j \in 1..Len(alerted) : alerted[i] = alerted[j] => i = j
              /\ Range(alerted) \subseteq Range(detected)
              /\ \A i \in 1..Len(detected) : ~recent(detected[i]) => detected[i] \in Range(alerted)
    /\ scanner.pc = "saving" =>
           /\ scanner.outputFile.allSignals = scanner.results
           /\ scanner.outputFile.alerts = scanner.newAlerts

C38_Witness ==
    /\ scanner.pc = "saving"
    /\ <<"BTC", "CROSS_ABOVE_200", "1h">> \in DOMAIN scanner.alertedAt
    /\ scanner.now - scanner.alertedAt[<<"BTC", "CROSS_ABOVE_200", "1h">>] > FourHours
    /\ scanner.results = <<[coin |-> "BTC", signals |-> <<Above1h, Above1h>>]>>
    /\ scanner.outputFile.alerts = <<[coin |-> "BTC", signals |-> <<Above1h>>]>>
    /\ scanner.outputFile.allSignals = scanner.results

SixHours == 6 * 60 * 60 * 1000

\* C39 (as claimed): in the Polymarket tracker, once a market has produced an
\* alert, no scan emits a further alert for that market within the
\* following 6 hours.
C39_MarketCooldown ==
    \A i, j \in 1..Len(tracker.sent) :
        (i < j /\ tracker.sent[i].marketId = tracker.sent[j].marketId) =>
            tracker.sent[j].time - tracker.sent[i].time >= SixHours

====
